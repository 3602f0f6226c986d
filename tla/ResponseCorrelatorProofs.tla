---------------------- MODULE ResponseCorrelatorProofs ----------------------
(***************************************************************************)
(* Theorems about ResponseCorrelator for any number of threads and         *)
(* commands.  The inductive invariant Inv says who owns a future: a        *)
(* command id not yet registered, an entry of requestMap and an element of *)
(* a disposer's list are three disjoint places, and a future in any of     *)
(* them has not been completed.  The end of the module shows that every    *)
(* step of the code is a step of RequestReply or a stutter.                *)
(***************************************************************************)
EXTENDS ResponseCorrelator, TLAPS

Active(p) == pc[p] # "idle"

(* Ids in use are below the counter and belong to one call. *)
IdsOwned ==
    /\ \A p \in Callers : Active(p) =>
          /\ cmd[p] \in CommandId
          /\ cmd[p] < nextCommandId
          /\ result[cmd[p]] = "none"
    /\ \A p, q \in Callers : Active(p) /\ Active(q) /\ p # q => cmd[p] # cmd[q]

(* Nobody has seen the future of this id. *)
Untouched(i) ==
    /\ i \notin requestMap
    /\ \A d \in Disposers : i \notin requests[d]
    /\ completions[i] = 0
    /\ response[i] = "null"
    /\ i \notin sent

FreshIds ==
    /\ \A i \in CommandId : i >= nextCommandId => Untouched(i) /\ result[i] = "none"
    /\ \A p \in Callers : pc[p] \in {"register", "refused"} => Untouched(cmd[p])

(* The two places a live future can be in are disjoint and hold uncompleted ones. *)
Places ==
    /\ \A i \in requestMap : completions[i] = 0
    /\ \A d \in Disposers : \A i \in requests[d] :
          /\ completions[i] = 0
          /\ i \notin requestMap
          /\ \A e \in Disposers : i \in requests[e] => e = d
    /\ \A d \in Disposers : requests[d] # {} => priorError
    /\ \A i \in CommandId : completions[i] = 0 <=> response[i] = "null"

Reachable(i) == i \in requestMap \/ i \in lost \/ \E d \in Disposers : i \in requests[d]

(* Callers are where their kind of call can be, and a live call can be reached. *)
Calls ==
    /\ \A p \in Callers :
          /\ pc[p] \in {"wait", "finalize", "abandon"} => p \in Waiters
          /\ pc[p] \in {"remove", "unlink"} => p \in AsyncCallers
          /\ pc[p] = "finalize" => response[cmd[p]] # "null"
          /\ pc[p] \in {"send", "wait"} =>
                response[cmd[p]] # "null" \/ Reachable(cmd[p])
    /\ \A i \in sent : result[i] = "value" =>
          response[i] # "null" \/ Reachable(i)

Inv ==
    /\ TypeOK
    /\ IdsOwned
    /\ FreshIds
    /\ Places
    /\ CompletedAtMostOnce
    /\ FailedFilterHoldsNothing
    /\ Calls
    /\ NoLeakedEntry

-----------------------------------------------------------------------------
(* The sets of threads are related as their names say. *)
LEMMA ThreadSets ==
    /\ Waiters \subseteq Callers
    /\ AsyncCallers \subseteq Callers
    /\ Listeners \subseteq Disposers
    /\ Closers \subseteq Disposers
    /\ Waiters \cap AsyncCallers = {}
    /\ TimedCallers \subseteq Waiters
    /\ \A p \in Callers : p \in Waiters \/ p \in AsyncCallers
  BY ThreadAssumption DEF Waiters, Callers, Disposers

(* BeginRequest preserves the invariant. *)
LEMMA BeginRequestKeepsInv == ASSUME Inv, NEW p \in Callers, BeginRequest(p) PROVE Inv'
<1> USE ThreadSets, BoundAssumption
        DEF BeginRequest, Goto, Return, SetResponse, MapPut, callVars, disposeVars, mapVars,
            Inv, TypeOK, CommandId
<1>1. TypeOK'
  OBVIOUS
<1>2. IdsOwned'
  BY  DEF IdsOwned, FreshIds, Active
<1>3. FreshIds'
  BY  DEF IdsOwned, FreshIds, Untouched, Active
<1>4. Places'
  BY  DEF IdsOwned, FreshIds, Untouched, Places, Active, FailedFilterHoldsNothing
<1>5. CompletedAtMostOnce'
  BY  DEF IdsOwned, FreshIds, Untouched, Places, Active, CompletedAtMostOnce
<1>6. FailedFilterHoldsNothing'
  BY  DEF FailedFilterHoldsNothing
<1>7. Calls'
  BY  DEF Calls, IdsOwned, FreshIds, Untouched, Places, Reachable, Active
<1>8. NoLeakedEntry'
  BY DEF NoLeakedEntry, IdsOwned, FreshIds, Untouched, Active
<1> QED
  BY <1>1, <1>2, <1>3, <1>4, <1>5, <1>6, <1>7, <1>8

(* Register preserves the invariant. *)
LEMMA RegisterKeepsInv == ASSUME Inv, NEW p \in Callers, Register(p) PROVE Inv'
<1> USE ThreadSets, BoundAssumption
        DEF Register, Goto, Return, SetResponse, MapPut, callVars, disposeVars, mapVars,
            Inv, TypeOK, CommandId
<1>0. cmd[p] \in CommandId /\ cmd[p] < nextCommandId /\ result[cmd[p]] = "none"
  BY DEF IdsOwned, Active
<1>1. TypeOK'
  BY <1>0
<1>2. IdsOwned'
  BY <1>0 DEF IdsOwned, FreshIds, Active
<1>3. FreshIds'
  <2>1. ASSUME NEW i \in CommandId, i >= nextCommandId' PROVE (Untouched(i) /\ result[i] = "none")'
    BY <1>0, <2>1 DEF FreshIds, Untouched
  <2>2. ASSUME NEW q \in Callers, pc'[q] \in {"register", "refused"} PROVE Untouched(cmd[q])'
    <3>1. q # p /\ pc[q] = pc'[q] /\ cmd[q] # cmd[p]
      BY <2>2 DEF IdsOwned, Active
    <3> QED
      BY <1>0, <2>2, <3>1 DEF FreshIds, Untouched
  <2> QED
    BY <2>1, <2>2 DEF FreshIds
<1>4. Places'
  BY <1>0 DEF IdsOwned, FreshIds, Untouched, Places, Active, FailedFilterHoldsNothing
<1>5. CompletedAtMostOnce'
  BY <1>0 DEF IdsOwned, FreshIds, Untouched, Places, Active, CompletedAtMostOnce
<1>6. FailedFilterHoldsNothing'
  BY <1>0 DEF FailedFilterHoldsNothing
<1>7. Calls'
  BY <1>0 DEF Calls, IdsOwned, FreshIds, Untouched, Places, Reachable, Active
<1>8. NoLeakedEntry'
  BY <1>0 DEF NoLeakedEntry, IdsOwned, FreshIds, Untouched, Active
<1> QED
  BY <1>1, <1>2, <1>3, <1>4, <1>5, <1>6, <1>7, <1>8

(* SeePriorError preserves the invariant. *)
LEMMA SeePriorErrorKeepsInv == ASSUME Inv, NEW p \in Callers, SeePriorError(p) PROVE Inv'
<1> USE ThreadSets, BoundAssumption
        DEF SeePriorError, Goto, Return, SetResponse, MapPut, callVars, disposeVars, mapVars,
            Inv, TypeOK, CommandId
<1>0. cmd[p] \in CommandId /\ cmd[p] < nextCommandId /\ result[cmd[p]] = "none"
  BY DEF IdsOwned, Active
<1>1. TypeOK'
  BY <1>0
<1>2. IdsOwned'
  BY <1>0 DEF IdsOwned, FreshIds, Active
<1>3. FreshIds'
  BY <1>0 DEF IdsOwned, FreshIds, Untouched, Active
<1>4. Places'
  BY <1>0 DEF IdsOwned, FreshIds, Untouched, Places, Active, FailedFilterHoldsNothing
<1>5. CompletedAtMostOnce'
  BY <1>0 DEF IdsOwned, FreshIds, Untouched, Places, Active, CompletedAtMostOnce
<1>6. FailedFilterHoldsNothing'
  BY <1>0 DEF FailedFilterHoldsNothing
<1>7. Calls'
  BY <1>0 DEF Calls, IdsOwned, FreshIds, Untouched, Places, Reachable, Active
<1>8. NoLeakedEntry'
  BY <1>0 DEF NoLeakedEntry, IdsOwned, FreshIds, Untouched, Active
<1> QED
  BY <1>1, <1>2, <1>3, <1>4, <1>5, <1>6, <1>7, <1>8

(* RefuseRequest preserves the invariant. *)
LEMMA RefuseRequestKeepsInv == ASSUME Inv, NEW p \in Callers, RefuseRequest(p) PROVE Inv'
<1> USE ThreadSets, BoundAssumption
        DEF RefuseRequest, Goto, Return, SetResponse, MapPut, callVars, disposeVars, mapVars,
            Inv, TypeOK, CommandId
<1>0. cmd[p] \in CommandId /\ cmd[p] < nextCommandId /\ result[cmd[p]] = "none"
  BY DEF IdsOwned, Active
<1>1. TypeOK'
  BY <1>0
<1>2. IdsOwned'
  BY <1>0 DEF IdsOwned, FreshIds, Active
<1>3. FreshIds'
  BY <1>0 DEF IdsOwned, FreshIds, Untouched, Active
<1>4. Places'
  BY <1>0 DEF IdsOwned, FreshIds, Untouched, Places, Active, FailedFilterHoldsNothing
<1>5. CompletedAtMostOnce'
  BY <1>0 DEF IdsOwned, FreshIds, Untouched, Places, Active, CompletedAtMostOnce
<1>6. FailedFilterHoldsNothing'
  BY <1>0 DEF FailedFilterHoldsNothing
<1>7. Calls'
  BY <1>0 DEF Calls, IdsOwned, FreshIds, Untouched, Places, Reachable, Active
<1>8. NoLeakedEntry'
  BY <1>0 DEF NoLeakedEntry, IdsOwned, FreshIds, Untouched, Active
<1> QED
  BY <1>1, <1>2, <1>3, <1>4, <1>5, <1>6, <1>7, <1>8

(* RefuseAsync preserves the invariant. *)
LEMMA RefuseAsyncKeepsInv == ASSUME Inv, NEW p \in Callers, RefuseAsync(p) PROVE Inv'
<1> USE ThreadSets, BoundAssumption
        DEF RefuseAsync, Goto, Return, SetResponse, MapPut, callVars, disposeVars, mapVars,
            Inv, TypeOK, CommandId
<1>0. cmd[p] \in CommandId /\ cmd[p] < nextCommandId /\ result[cmd[p]] = "none"
  BY DEF IdsOwned, Active
<1>1. TypeOK'
  BY <1>0
<1>2. IdsOwned'
  BY <1>0 DEF IdsOwned, FreshIds, Active
<1>3. FreshIds'
  BY <1>0 DEF IdsOwned, FreshIds, Untouched, Active
<1>4. Places'
  BY <1>0 DEF IdsOwned, FreshIds, Untouched, Places, Active, FailedFilterHoldsNothing
<1>5. CompletedAtMostOnce'
  BY <1>0 DEF IdsOwned, FreshIds, Untouched, Places, Active, CompletedAtMostOnce
<1>6. FailedFilterHoldsNothing'
  BY <1>0 DEF FailedFilterHoldsNothing
<1>7. Calls'
  BY <1>0 DEF Calls, IdsOwned, FreshIds, Untouched, Places, Reachable, Active
<1>8. NoLeakedEntry'
  BY <1>0 DEF NoLeakedEntry, IdsOwned, FreshIds, Untouched, Active
<1> QED
  BY <1>1, <1>2, <1>3, <1>4, <1>5, <1>6, <1>7, <1>8

(* SendRequest preserves the invariant. *)
LEMMA SendRequestKeepsInv == ASSUME Inv, NEW p \in Callers, SendRequest(p) PROVE Inv'
<1> USE ThreadSets, BoundAssumption
        DEF SendRequest, Goto, Return, SetResponse, MapPut, callVars, disposeVars, mapVars,
            Inv, TypeOK, CommandId
<1>0. cmd[p] \in CommandId /\ cmd[p] < nextCommandId /\ result[cmd[p]] = "none"
  BY DEF IdsOwned, Active
<1>1. TypeOK'
  BY <1>0
<1>2. IdsOwned'
  BY <1>0 DEF IdsOwned, FreshIds, Active
<1>3. FreshIds'
  BY <1>0, SMTT(60) DEF IdsOwned, FreshIds, Untouched, Active
<1>4. Places'
  BY <1>0 DEF IdsOwned, FreshIds, Untouched, Places, Active, FailedFilterHoldsNothing
<1>5. CompletedAtMostOnce'
  BY <1>0 DEF IdsOwned, FreshIds, Untouched, Places, Active, CompletedAtMostOnce
<1>6. FailedFilterHoldsNothing'
  BY <1>0 DEF FailedFilterHoldsNothing
<1>7. Calls'
  BY <1>0 DEF Calls, IdsOwned, FreshIds, Untouched, Places, Reachable, Active
<1>8. NoLeakedEntry'
  BY <1>0 DEF NoLeakedEntry, IdsOwned, FreshIds, Untouched, Active
<1> QED
  BY <1>1, <1>2, <1>3, <1>4, <1>5, <1>6, <1>7, <1>8

(* SendAsync preserves the invariant. *)
LEMMA SendAsyncKeepsInv == ASSUME Inv, NEW p \in Callers, SendAsync(p) PROVE Inv'
<1> USE ThreadSets, BoundAssumption
        DEF SendAsync, Goto, Return, SetResponse, MapPut, callVars, disposeVars, mapVars,
            Inv, TypeOK, CommandId
<1>0. cmd[p] \in CommandId /\ cmd[p] < nextCommandId /\ result[cmd[p]] = "none"
  BY DEF IdsOwned, Active
<1>1. TypeOK'
  <2>1. result' \in [CommandId -> {"none", "value", "threw"}]
    BY <1>0
  <2>2. sent' \in SUBSET CommandId
    BY <1>0
  <2>3. cmd' \in [Callers -> 0..MaxCommandId]
    OBVIOUS
  <2>4. pc' \in [Callers -> {"idle", "register", "refused", "send", "wait",
                             "finalize", "abandon", "remove", "unlink"}]
    OBVIOUS
  <2> QED
    BY <2>1, <2>2, <2>3, <2>4
<1>2. IdsOwned'
  BY <1>0 DEF IdsOwned, FreshIds, Active
<1>3. FreshIds'
  BY <1>0 DEF IdsOwned, FreshIds, Untouched, Active
<1>4. Places'
  BY <1>0 DEF IdsOwned, FreshIds, Untouched, Places, Active, FailedFilterHoldsNothing
<1>5. CompletedAtMostOnce'
  BY <1>0 DEF IdsOwned, FreshIds, Untouched, Places, Active, CompletedAtMostOnce
<1>6. FailedFilterHoldsNothing'
  BY <1>0 DEF FailedFilterHoldsNothing
<1>7. Calls'
  BY <1>0 DEF Calls, IdsOwned, FreshIds, Untouched, Places, Reachable, Active
<1>8. NoLeakedEntry'
  BY <1>0 DEF NoLeakedEntry, IdsOwned, FreshIds, Untouched, Active
<1> QED
  BY <1>1, <1>2, <1>3, <1>4, <1>5, <1>6, <1>7, <1>8

(* SendThrows preserves the invariant. *)
LEMMA SendThrowsKeepsInv == ASSUME Inv, NEW p \in Callers, SendThrows(p) PROVE Inv'
<1> USE ThreadSets, BoundAssumption
        DEF SendThrows, Goto, Return, SetResponse, MapPut, callVars, disposeVars, mapVars,
            Inv, TypeOK, CommandId
<1>0. cmd[p] \in CommandId /\ cmd[p] < nextCommandId /\ result[cmd[p]] = "none"
  BY DEF IdsOwned, Active
<1>1. TypeOK'
  BY <1>0
<1>2. IdsOwned'
  BY <1>0 DEF IdsOwned, FreshIds, Active
<1>3. FreshIds'
  BY <1>0 DEF IdsOwned, FreshIds, Untouched, Active
<1>4. Places'
  BY <1>0 DEF IdsOwned, FreshIds, Untouched, Places, Active, FailedFilterHoldsNothing
<1>5. CompletedAtMostOnce'
  BY <1>0 DEF IdsOwned, FreshIds, Untouched, Places, Active, CompletedAtMostOnce
<1>6. FailedFilterHoldsNothing'
  BY <1>0 DEF FailedFilterHoldsNothing
<1>7. Calls'
  BY <1>0 DEF Calls, IdsOwned, FreshIds, Untouched, Places, Reachable, Active
<1>8. NoLeakedEntry'
  BY <1>0 DEF NoLeakedEntry, IdsOwned, FreshIds, Untouched, Active
<1> QED
  BY <1>1, <1>2, <1>3, <1>4, <1>5, <1>6, <1>7, <1>8

(* GetResponse preserves the invariant. *)
LEMMA GetResponseKeepsInv == ASSUME Inv, NEW p \in Callers, GetResponse(p) PROVE Inv'
<1> USE ThreadSets, BoundAssumption
        DEF GetResponse, Goto, Return, SetResponse, MapPut, callVars, disposeVars, mapVars,
            Inv, TypeOK, CommandId
<1>0. cmd[p] \in CommandId /\ cmd[p] < nextCommandId /\ result[cmd[p]] = "none"
  BY DEF IdsOwned, Active
<1>1. TypeOK'
  BY <1>0
<1>2. IdsOwned'
  BY <1>0 DEF IdsOwned, FreshIds, Active
<1>3. FreshIds'
  BY <1>0 DEF IdsOwned, FreshIds, Untouched, Active
<1>4. Places'
  BY <1>0 DEF IdsOwned, FreshIds, Untouched, Places, Active, FailedFilterHoldsNothing
<1>5. CompletedAtMostOnce'
  BY <1>0 DEF IdsOwned, FreshIds, Untouched, Places, Active, CompletedAtMostOnce
<1>6. FailedFilterHoldsNothing'
  BY <1>0 DEF FailedFilterHoldsNothing
<1>7. Calls'
  BY <1>0 DEF Calls, IdsOwned, FreshIds, Untouched, Places, Reachable, Active
<1>8. NoLeakedEntry'
  BY <1>0 DEF NoLeakedEntry, IdsOwned, FreshIds, Untouched, Active
<1> QED
  BY <1>1, <1>2, <1>3, <1>4, <1>5, <1>6, <1>7, <1>8

(* GetResponseTimesOut preserves the invariant. *)
LEMMA GetResponseTimesOutKeepsInv == ASSUME Inv, NEW p \in Callers, GetResponseTimesOut(p) PROVE Inv'
<1> USE ThreadSets, BoundAssumption
        DEF GetResponseTimesOut, Goto, Return, SetResponse, MapPut, callVars, disposeVars, mapVars,
            Inv, TypeOK, CommandId
<1>0. cmd[p] \in CommandId /\ cmd[p] < nextCommandId /\ result[cmd[p]] = "none"
  BY DEF IdsOwned, Active
<1>1. TypeOK'
  BY <1>0
<1>2. IdsOwned'
  BY <1>0 DEF IdsOwned, FreshIds, Active
<1>3. FreshIds'
  BY <1>0 DEF IdsOwned, FreshIds, Untouched, Active
<1>4. Places'
  BY <1>0 DEF IdsOwned, FreshIds, Untouched, Places, Active, FailedFilterHoldsNothing
<1>5. CompletedAtMostOnce'
  BY <1>0 DEF IdsOwned, FreshIds, Untouched, Places, Active, CompletedAtMostOnce
<1>6. FailedFilterHoldsNothing'
  BY <1>0 DEF FailedFilterHoldsNothing
<1>7. Calls'
  BY <1>0 DEF Calls, IdsOwned, FreshIds, Untouched, Places, Reachable, Active
<1>8. NoLeakedEntry'
  BY <1>0 DEF NoLeakedEntry, IdsOwned, FreshIds, Untouched, Active
<1> QED
  BY <1>1, <1>2, <1>3, <1>4, <1>5, <1>6, <1>7, <1>8

(* Finalize preserves the invariant. *)
LEMMA FinalizeKeepsInv == ASSUME Inv, NEW p \in Callers, Finalize(p) PROVE Inv'
<1> USE ThreadSets, BoundAssumption
        DEF Finalize, Goto, Return, SetResponse, MapPut, callVars, disposeVars, mapVars,
            Inv, TypeOK, CommandId
<1>0. cmd[p] \in CommandId /\ cmd[p] < nextCommandId /\ result[cmd[p]] = "none"
  BY DEF IdsOwned, Active
<1>1. TypeOK'
  <2>1. result' \in [CommandId -> {"none", "value", "threw"}]
    BY <1>0
  <2>2. requestMap' \in SUBSET CommandId
    BY <1>0
  <2> QED
    BY <1>0, <2>1, <2>2, SMTT(60)
<1>2. IdsOwned'
  BY <1>0 DEF IdsOwned, FreshIds, Active
<1>3. FreshIds'
  BY <1>0 DEF IdsOwned, FreshIds, Untouched, Active
<1>4. Places'
  BY <1>0 DEF IdsOwned, FreshIds, Untouched, Places, Active, FailedFilterHoldsNothing
<1>5. CompletedAtMostOnce'
  BY <1>0 DEF IdsOwned, FreshIds, Untouched, Places, Active, CompletedAtMostOnce
<1>6. FailedFilterHoldsNothing'
  BY <1>0 DEF FailedFilterHoldsNothing
<1>7. Calls'
  <2>1. ASSUME NEW q \in Callers, pc'[q] # "idle"
        PROVE  q # p /\ pc[q] = pc'[q] /\ cmd[q] = cmd'[q] /\ cmd[q] # cmd[p]
    BY <2>1 DEF IdsOwned, Active
  <2>2. ASSUME NEW i \in CommandId, i # cmd[p], Reachable(i) PROVE Reachable(i)'
    BY <2>2 DEF Reachable
  <2>3. ASSUME NEW q \in Callers, pc'[q] # "idle"
        PROVE  /\ pc'[q] \in {"wait", "finalize", "abandon"} => q \in Waiters
               /\ pc'[q] \in {"remove", "unlink"} => q \in AsyncCallers
               /\ pc'[q] = "finalize" => response'[cmd'[q]] # "null"
               /\ pc'[q] \in {"send", "wait"} =>
                     response'[cmd'[q]] # "null" \/ Reachable(cmd[q])'
    BY <2>1, <2>2, <2>3 DEF Calls, IdsOwned, Active
  <2>4. ASSUME NEW i \in sent', result'[i] = "value"
        PROVE  response'[i] # "null" \/ Reachable(i)'
    BY <1>0, <2>2, <2>4 DEF Calls
  <2> QED
    BY <2>3, <2>4 DEF Calls
<1>8. NoLeakedEntry'
  BY <1>0 DEF NoLeakedEntry, IdsOwned, FreshIds, Untouched, Active
<1> QED
  BY <1>1, <1>2, <1>3, <1>4, <1>5, <1>6, <1>7, <1>8

(* AsyncLocate preserves the invariant. *)
LEMMA AsyncLocateKeepsInv == ASSUME Inv, NEW p \in Callers, AsyncLocate(p) PROVE Inv'
<1> USE ThreadSets, BoundAssumption
        DEF AsyncLocate, Goto, Return, SetResponse, MapPut, callVars, disposeVars, mapVars,
            Inv, TypeOK, CommandId
<1>0. cmd[p] \in CommandId /\ cmd[p] < nextCommandId /\ result[cmd[p]] = "none"
  BY DEF IdsOwned, Active
<1>1. TypeOK'
  BY <1>0
<1>2. IdsOwned'
  BY <1>0 DEF IdsOwned, FreshIds, Active
<1>3. FreshIds'
  BY <1>0 DEF IdsOwned, FreshIds, Untouched, Active
<1>4. Places'
  BY <1>0 DEF IdsOwned, FreshIds, Untouched, Places, Active, FailedFilterHoldsNothing
<1>5. CompletedAtMostOnce'
  BY <1>0 DEF IdsOwned, FreshIds, Untouched, Places, Active, CompletedAtMostOnce
<1>6. FailedFilterHoldsNothing'
  BY <1>0 DEF FailedFilterHoldsNothing
<1>7. Calls'
  BY <1>0 DEF Calls, IdsOwned, FreshIds, Untouched, Places, Reachable, Active
<1>8. NoLeakedEntry'
  BY <1>0 DEF NoLeakedEntry, IdsOwned, FreshIds, Untouched, Active
<1> QED
  BY <1>1, <1>2, <1>3, <1>4, <1>5, <1>6, <1>7, <1>8

(* AsyncNotFound preserves the invariant. *)
LEMMA AsyncNotFoundKeepsInv == ASSUME Inv, NEW p \in Callers, AsyncNotFound(p) PROVE Inv'
<1> USE ThreadSets, BoundAssumption
        DEF AsyncNotFound, Goto, Return, SetResponse, MapPut, callVars, disposeVars, mapVars,
            Inv, TypeOK, CommandId
<1>0. cmd[p] \in CommandId /\ cmd[p] < nextCommandId /\ result[cmd[p]] = "none"
  BY DEF IdsOwned, Active
<1>1. TypeOK'
  BY <1>0
<1>2. IdsOwned'
  BY <1>0 DEF IdsOwned, FreshIds, Active
<1>3. FreshIds'
  BY <1>0 DEF IdsOwned, FreshIds, Untouched, Active
<1>4. Places'
  BY <1>0 DEF IdsOwned, FreshIds, Untouched, Places, Active, FailedFilterHoldsNothing
<1>5. CompletedAtMostOnce'
  BY <1>0 DEF IdsOwned, FreshIds, Untouched, Places, Active, CompletedAtMostOnce
<1>6. FailedFilterHoldsNothing'
  BY <1>0 DEF FailedFilterHoldsNothing
<1>7. Calls'
  BY <1>0 DEF Calls, IdsOwned, FreshIds, Untouched, Places, Reachable, Active
<1>8. NoLeakedEntry'
  BY <1>0 DEF NoLeakedEntry, IdsOwned, FreshIds, Untouched, Active
<1> QED
  BY <1>1, <1>2, <1>3, <1>4, <1>5, <1>6, <1>7, <1>8

(* AsyncUnlink preserves the invariant. *)
LEMMA AsyncUnlinkKeepsInv == ASSUME Inv, NEW p \in Callers, AsyncUnlink(p) PROVE Inv'
<1> USE ThreadSets, BoundAssumption
        DEF AsyncUnlink, Goto, Return, SetResponse, MapPut, callVars, disposeVars, mapVars,
            Inv, TypeOK, CommandId
<1>0. cmd[p] \in CommandId /\ cmd[p] < nextCommandId /\ result[cmd[p]] = "none"
  BY DEF IdsOwned, Active
<1>1. TypeOK'
  <2>1. result' \in [CommandId -> {"none", "value", "threw"}]
    BY <1>0
  <2>2. requestMap' \in SUBSET CommandId /\ lost' \in SUBSET CommandId
    BY <1>0
  <2>3. crossed' \in [AsyncCallers -> SUBSET CommandId]
    BY <1>0
  <2> QED
    BY <1>0, <2>1, <2>2, <2>3, SMTT(60)
<1>2. IdsOwned'
  BY <1>0 DEF IdsOwned, FreshIds, Active
<1>3. FreshIds'
  BY <1>0 DEF IdsOwned, FreshIds, Untouched, Active
<1>4. Places'
  BY <1>0 DEF IdsOwned, FreshIds, Untouched, Places, Active, FailedFilterHoldsNothing
<1>5. CompletedAtMostOnce'
  BY <1>0 DEF IdsOwned, FreshIds, Untouched, Places, Active, CompletedAtMostOnce
<1>6. FailedFilterHoldsNothing'
  BY <1>0 DEF FailedFilterHoldsNothing
<1>7. Calls'
  <2>1. ASSUME NEW q \in Callers, pc'[q] # "idle"
        PROVE  q # p /\ pc[q] = pc'[q] /\ cmd[q] = cmd'[q] /\ cmd[q] # cmd[p]
    BY <2>1 DEF IdsOwned, Active
  <2>2. ASSUME NEW i \in CommandId, i # cmd[p], Reachable(i) PROVE Reachable(i)'
    BY <2>2 DEF Reachable
  <2>3. ASSUME NEW q \in Callers, pc'[q] # "idle"
        PROVE  /\ pc'[q] \in {"wait", "finalize", "abandon"} => q \in Waiters
               /\ pc'[q] \in {"remove", "unlink"} => q \in AsyncCallers
               /\ pc'[q] = "finalize" => response'[cmd'[q]] # "null"
               /\ pc'[q] \in {"send", "wait"} =>
                     response'[cmd'[q]] # "null" \/ Reachable(cmd[q])'
    BY <2>1, <2>2, <2>3 DEF Calls, IdsOwned, Active
  <2>4. ASSUME NEW i \in sent', result'[i] = "value"
        PROVE  response'[i] # "null" \/ Reachable(i)'
    BY <1>0, <2>2, <2>4 DEF Calls
  <2> QED
    BY <2>3, <2>4 DEF Calls
<1>8. NoLeakedEntry'
  BY <1>0 DEF NoLeakedEntry, IdsOwned, FreshIds, Untouched, Active
<1> QED
  BY <1>1, <1>2, <1>3, <1>4, <1>5, <1>6, <1>7, <1>8

(* OnCommand preserves the invariant. *)
LEMMA OnCommandKeepsInv == ASSUME Inv, NEW l \in Listeners, OnCommand(l) PROVE Inv'
<1> USE ThreadSets, BoundAssumption
        DEF OnCommand, Goto, Return, SetResponse, MapPut, callVars, disposeVars, mapVars,
            Inv, TypeOK, CommandId
<1>1. TypeOK'
  BY SMTT(60)
<1>2. IdsOwned'
  BY  DEF IdsOwned, FreshIds, Active
<1>3. FreshIds'
  BY  DEF IdsOwned, FreshIds, Untouched, Active
<1>4. Places'
  BY  DEF IdsOwned, FreshIds, Untouched, Places, Active, FailedFilterHoldsNothing
<1>5. CompletedAtMostOnce'
  BY  DEF IdsOwned, FreshIds, Untouched, Places, Active, CompletedAtMostOnce
<1>6. FailedFilterHoldsNothing'
  BY  DEF FailedFilterHoldsNothing
<1>7. Calls'
  BY  DEF Calls, IdsOwned, FreshIds, Untouched, Places, Reachable, Active
<1>8. NoLeakedEntry'
  BY DEF NoLeakedEntry, IdsOwned, FreshIds, Untouched, Active
<1> QED
  BY <1>1, <1>2, <1>3, <1>4, <1>5, <1>6, <1>7, <1>8

(* Correlate preserves the invariant. *)
LEMMA CorrelateKeepsInv == ASSUME Inv, NEW l \in Listeners, Correlate(l) PROVE Inv'
<1> USE ThreadSets, BoundAssumption
        DEF Correlate, Goto, Return, SetResponse, MapPut, callVars, disposeVars, mapVars,
            Inv, TypeOK, CommandId
<1>1. TypeOK'
  <2>1. response' \in [CommandId -> {"null", "response", "error"}]
    OBVIOUS
  <2>2. completions' \in [CommandId -> Nat]
    OBVIOUS
  <2> QED
    BY <2>1, <2>2
<1>2. IdsOwned'
  BY  DEF IdsOwned, FreshIds, Active
<1>3. FreshIds'
  BY  DEF IdsOwned, FreshIds, Untouched, Active
<1>4. Places'
  BY  DEF IdsOwned, FreshIds, Untouched, Places, Active, FailedFilterHoldsNothing
<1>5. CompletedAtMostOnce'
  BY  DEF IdsOwned, FreshIds, Untouched, Places, Active, CompletedAtMostOnce
<1>6. FailedFilterHoldsNothing'
  BY  DEF FailedFilterHoldsNothing
<1>7. Calls'
  BY  DEF Calls, IdsOwned, FreshIds, Untouched, Places, Reachable, Active
<1>8. NoLeakedEntry'
  BY DEF NoLeakedEntry, IdsOwned, FreshIds, Untouched, Active
<1> QED
  BY <1>1, <1>2, <1>3, <1>4, <1>5, <1>6, <1>7, <1>8

(* CorrelateMiss preserves the invariant. *)
LEMMA CorrelateMissKeepsInv == ASSUME Inv, NEW l \in Listeners, CorrelateMiss(l) PROVE Inv'
<1> USE ThreadSets, BoundAssumption
        DEF CorrelateMiss, Goto, Return, SetResponse, MapPut, callVars, disposeVars, mapVars,
            Inv, TypeOK, CommandId
<1>1. TypeOK'
  OBVIOUS
<1>2. IdsOwned'
  BY  DEF IdsOwned, FreshIds, Active
<1>3. FreshIds'
  BY  DEF IdsOwned, FreshIds, Untouched, Active
<1>4. Places'
  BY  DEF IdsOwned, FreshIds, Untouched, Places, Active, FailedFilterHoldsNothing
<1>5. CompletedAtMostOnce'
  BY  DEF IdsOwned, FreshIds, Untouched, Places, Active, CompletedAtMostOnce
<1>6. FailedFilterHoldsNothing'
  BY  DEF FailedFilterHoldsNothing
<1>7. Calls'
  BY  DEF Calls, IdsOwned, FreshIds, Untouched, Places, Reachable, Active
<1>8. NoLeakedEntry'
  BY DEF NoLeakedEntry, IdsOwned, FreshIds, Untouched, Active
<1> QED
  BY <1>1, <1>2, <1>3, <1>4, <1>5, <1>6, <1>7, <1>8

(* OnException preserves the invariant. *)
LEMMA OnExceptionKeepsInv == ASSUME Inv, NEW l \in Listeners, OnException(l) PROVE Inv'
<1> USE ThreadSets, BoundAssumption
        DEF OnException, Goto, Return, SetResponse, MapPut, callVars, disposeVars, mapVars,
            Inv, TypeOK, CommandId
<1>1. TypeOK'
  OBVIOUS
<1>2. IdsOwned'
  BY  DEF IdsOwned, FreshIds, Active
<1>3. FreshIds'
  BY  DEF IdsOwned, FreshIds, Untouched, Active
<1>4. Places'
  BY  DEF IdsOwned, FreshIds, Untouched, Places, Active, FailedFilterHoldsNothing
<1>5. CompletedAtMostOnce'
  BY  DEF IdsOwned, FreshIds, Untouched, Places, Active, CompletedAtMostOnce
<1>6. FailedFilterHoldsNothing'
  BY  DEF FailedFilterHoldsNothing
<1>7. Calls'
  BY  DEF Calls, IdsOwned, FreshIds, Untouched, Places, Reachable, Active
<1>8. NoLeakedEntry'
  BY DEF NoLeakedEntry, IdsOwned, FreshIds, Untouched, Active
<1> QED
  BY <1>1, <1>2, <1>3, <1>4, <1>5, <1>6, <1>7, <1>8

(* DisposeFirst preserves the invariant. *)
LEMMA DisposeFirstKeepsInv == ASSUME Inv, NEW d \in Disposers, DisposeFirst(d) PROVE Inv'
<1> USE ThreadSets, BoundAssumption
        DEF DisposeFirst, Goto, Return, SetResponse, MapPut, callVars, disposeVars, mapVars,
            Inv, TypeOK, CommandId
<1>1. TypeOK'
  OBVIOUS
<1>2. IdsOwned'
  BY  DEF IdsOwned, FreshIds, Active
<1>3. FreshIds'
  BY  DEF IdsOwned, FreshIds, Untouched, Active
<1>4. Places'
  BY  DEF IdsOwned, FreshIds, Untouched, Places, Active, FailedFilterHoldsNothing
<1>5. CompletedAtMostOnce'
  BY  DEF IdsOwned, FreshIds, Untouched, Places, Active, CompletedAtMostOnce
<1>6. FailedFilterHoldsNothing'
  BY  DEF FailedFilterHoldsNothing
<1>7. Calls'
  BY  DEF Calls, IdsOwned, FreshIds, Untouched, Places, Reachable, Active
<1>8. NoLeakedEntry'
  BY DEF NoLeakedEntry, IdsOwned, FreshIds, Untouched, Active
<1> QED
  BY <1>1, <1>2, <1>3, <1>4, <1>5, <1>6, <1>7, <1>8

(* DisposeAgain preserves the invariant. *)
LEMMA DisposeAgainKeepsInv == ASSUME Inv, NEW d \in Disposers, DisposeAgain(d) PROVE Inv'
<1> USE ThreadSets, BoundAssumption
        DEF DisposeAgain, Goto, Return, SetResponse, MapPut, callVars, disposeVars, mapVars,
            Inv, TypeOK, CommandId
<1>1. TypeOK'
  OBVIOUS
<1>2. IdsOwned'
  BY  DEF IdsOwned, FreshIds, Active
<1>3. FreshIds'
  BY  DEF IdsOwned, FreshIds, Untouched, Active
<1>4. Places'
  BY  DEF IdsOwned, FreshIds, Untouched, Places, Active, FailedFilterHoldsNothing
<1>5. CompletedAtMostOnce'
  BY  DEF IdsOwned, FreshIds, Untouched, Places, Active, CompletedAtMostOnce
<1>6. FailedFilterHoldsNothing'
  BY  DEF FailedFilterHoldsNothing
<1>7. Calls'
  BY  DEF Calls, IdsOwned, FreshIds, Untouched, Places, Reachable, Active
<1>8. NoLeakedEntry'
  BY DEF NoLeakedEntry, IdsOwned, FreshIds, Untouched, Active
<1> QED
  BY <1>1, <1>2, <1>3, <1>4, <1>5, <1>6, <1>7, <1>8

(* DisposeComplete preserves the invariant. *)
LEMMA DisposeCompleteKeepsInv == ASSUME Inv, NEW d \in Disposers, DisposeComplete(d) PROVE Inv'
<1> USE ThreadSets, BoundAssumption
        DEF DisposeComplete, Goto, Return, SetResponse, MapPut, callVars, disposeVars, mapVars,
            Inv, TypeOK, CommandId
<1>1. TypeOK'
  OBVIOUS
<1>2. IdsOwned'
  BY  DEF IdsOwned, FreshIds, Active
<1>3. FreshIds'
  BY  DEF IdsOwned, FreshIds, Untouched, Active
<1>4. Places'
  BY  DEF IdsOwned, FreshIds, Untouched, Places, Active, FailedFilterHoldsNothing
<1>5. CompletedAtMostOnce'
  BY  DEF IdsOwned, FreshIds, Untouched, Places, Active, CompletedAtMostOnce
<1>6. FailedFilterHoldsNothing'
  BY  DEF FailedFilterHoldsNothing
<1>7. Calls'
  BY  DEF Calls, IdsOwned, FreshIds, Untouched, Places, Reachable, Active
<1>8. NoLeakedEntry'
  BY DEF NoLeakedEntry, IdsOwned, FreshIds, Untouched, Active
<1> QED
  BY <1>1, <1>2, <1>3, <1>4, <1>5, <1>6, <1>7, <1>8

(* DisposeDone preserves the invariant. *)
LEMMA DisposeDoneKeepsInv == ASSUME Inv, NEW d \in Disposers, DisposeDone(d) PROVE Inv'
<1> USE ThreadSets, BoundAssumption
        DEF DisposeDone, Goto, Return, SetResponse, MapPut, callVars, disposeVars, mapVars,
            Inv, TypeOK, CommandId
<1>1. TypeOK'
  OBVIOUS
<1>2. IdsOwned'
  BY  DEF IdsOwned, FreshIds, Active
<1>3. FreshIds'
  BY  DEF IdsOwned, FreshIds, Untouched, Active
<1>4. Places'
  BY  DEF IdsOwned, FreshIds, Untouched, Places, Active, FailedFilterHoldsNothing
<1>5. CompletedAtMostOnce'
  BY  DEF IdsOwned, FreshIds, Untouched, Places, Active, CompletedAtMostOnce
<1>6. FailedFilterHoldsNothing'
  BY  DEF FailedFilterHoldsNothing
<1>7. Calls'
  BY  DEF Calls, IdsOwned, FreshIds, Untouched, Places, Reachable, Active
<1>8. NoLeakedEntry'
  BY DEF NoLeakedEntry, IdsOwned, FreshIds, Untouched, Active
<1> QED
  BY <1>1, <1>2, <1>3, <1>4, <1>5, <1>6, <1>7, <1>8

(* CloseBegin preserves the invariant. *)
LEMMA CloseBeginKeepsInv == ASSUME Inv, NEW c \in Closers, CloseBegin(c) PROVE Inv'
<1> USE ThreadSets, BoundAssumption
        DEF CloseBegin, Goto, Return, SetResponse, MapPut, callVars, disposeVars, mapVars,
            Inv, TypeOK, CommandId
<1>1. TypeOK'
  OBVIOUS
<1>2. IdsOwned'
  BY  DEF IdsOwned, FreshIds, Active
<1>3. FreshIds'
  BY  DEF IdsOwned, FreshIds, Untouched, Active
<1>4. Places'
  BY  DEF IdsOwned, FreshIds, Untouched, Places, Active, FailedFilterHoldsNothing
<1>5. CompletedAtMostOnce'
  BY  DEF IdsOwned, FreshIds, Untouched, Places, Active, CompletedAtMostOnce
<1>6. FailedFilterHoldsNothing'
  BY  DEF FailedFilterHoldsNothing
<1>7. Calls'
  BY  DEF Calls, IdsOwned, FreshIds, Untouched, Places, Reachable, Active
<1>8. NoLeakedEntry'
  BY DEF NoLeakedEntry, IdsOwned, FreshIds, Untouched, Active
<1> QED
  BY <1>1, <1>2, <1>3, <1>4, <1>5, <1>6, <1>7, <1>8

(* CloseDetach preserves the invariant. *)
LEMMA CloseDetachKeepsInv == ASSUME Inv, NEW c \in Closers, CloseDetach(c) PROVE Inv'
<1> USE ThreadSets, BoundAssumption
        DEF CloseDetach, Goto, Return, SetResponse, MapPut, callVars, disposeVars, mapVars,
            Inv, TypeOK, CommandId
<1>1. TypeOK'
  OBVIOUS
<1>2. IdsOwned'
  BY  DEF IdsOwned, FreshIds, Active
<1>3. FreshIds'
  BY  DEF IdsOwned, FreshIds, Untouched, Active
<1>4. Places'
  BY  DEF IdsOwned, FreshIds, Untouched, Places, Active, FailedFilterHoldsNothing
<1>5. CompletedAtMostOnce'
  BY  DEF IdsOwned, FreshIds, Untouched, Places, Active, CompletedAtMostOnce
<1>6. FailedFilterHoldsNothing'
  BY  DEF FailedFilterHoldsNothing
<1>7. Calls'
  BY  DEF Calls, IdsOwned, FreshIds, Untouched, Places, Reachable, Active
<1>8. NoLeakedEntry'
  BY DEF NoLeakedEntry, IdsOwned, FreshIds, Untouched, Active
<1> QED
  BY <1>1, <1>2, <1>3, <1>4, <1>5, <1>6, <1>7, <1>8

(* Oneway preserves the invariant. *)
LEMMA OnewayKeepsInv == ASSUME Inv, Oneway PROVE Inv'
<1> USE ThreadSets, BoundAssumption
        DEF Oneway, Goto, Return, SetResponse, MapPut, callVars, disposeVars, mapVars,
            Inv, TypeOK, CommandId
<1>1. TypeOK'
  OBVIOUS
<1>2. IdsOwned'
  BY  DEF IdsOwned, FreshIds, Active
<1>3. FreshIds'
  BY  DEF IdsOwned, FreshIds, Untouched, Active
<1>4. Places'
  BY  DEF IdsOwned, FreshIds, Untouched, Places, Active, FailedFilterHoldsNothing
<1>5. CompletedAtMostOnce'
  BY  DEF IdsOwned, FreshIds, Untouched, Places, Active, CompletedAtMostOnce
<1>6. FailedFilterHoldsNothing'
  BY  DEF FailedFilterHoldsNothing
<1>7. Calls'
  BY  DEF Calls, IdsOwned, FreshIds, Untouched, Places, Reachable, Active
<1>8. NoLeakedEntry'
  BY DEF NoLeakedEntry, IdsOwned, FreshIds, Untouched, Active
<1> QED
  BY <1>1, <1>2, <1>3, <1>4, <1>5, <1>6, <1>7, <1>8

-----------------------------------------------------------------------------
(* The invariant holds in every state the correlator can reach. *)
THEOREM InvHolds == Spec => []Inv
<1>1. Init => Inv
  <2> SUFFICES ASSUME Init PROVE Inv
    OBVIOUS
  <2> USE BoundAssumption, ThreadSets DEF Init, CommandId
  <2>1. TypeOK
    <3>1. nextCommandId \in 1..(MaxCommandId + 1) /\ 0 \in 0..MaxCommandId
      OBVIOUS
    <3>2. cmd \in [Callers -> 0..MaxCommandId] /\ correlationId \in [Listeners -> 0..MaxCommandId]
      BY <3>1
    <3>3. requests \in [Disposers -> SUBSET CommandId] /\ crossed \in [AsyncCallers -> SUBSET CommandId]
      OBVIOUS
    <3> QED
      BY <3>1, <3>2, <3>3 DEF TypeOK
  <2>2. IdsOwned /\ FreshIds
    BY DEF IdsOwned, FreshIds, Untouched, Active
  <2>3. Places /\ CompletedAtMostOnce /\ FailedFilterHoldsNothing /\ NoLeakedEntry
    BY DEF Places, NoLeakedEntry, CompletedAtMostOnce, FailedFilterHoldsNothing
  <2>4. Calls
    BY DEF Calls
  <2> QED
    BY <2>1, <2>2, <2>3, <2>4 DEF Inv
<1>2. Inv /\ [Next]_vars => Inv'
  <2> SUFFICES ASSUME Inv, [Next]_vars PROVE Inv'
    OBVIOUS
  <2>1. CASE Next
    BY BeginRequestKeepsInv, RegisterKeepsInv, SeePriorErrorKeepsInv,
       RefuseRequestKeepsInv, RefuseAsyncKeepsInv, SendRequestKeepsInv,
       SendAsyncKeepsInv, SendThrowsKeepsInv, GetResponseKeepsInv,
       GetResponseTimesOutKeepsInv, FinalizeKeepsInv, AsyncLocateKeepsInv,
       AsyncNotFoundKeepsInv, AsyncUnlinkKeepsInv, OnCommandKeepsInv,
       CorrelateKeepsInv, CorrelateMissKeepsInv, OnExceptionKeepsInv,
       DisposeFirstKeepsInv, DisposeAgainKeepsInv, DisposeCompleteKeepsInv,
       DisposeDoneKeepsInv, CloseBeginKeepsInv, CloseDetachKeepsInv,
       OnewayKeepsInv, <2>1
       DEF Next, CallerStep, CorrelateStep, DisposeStep
  <2>2. CASE UNCHANGED vars
    BY <2>2 DEF vars, Inv, TypeOK, IdsOwned, FreshIds, Untouched, Places, Active,
                CompletedAtMostOnce, FailedFilterHoldsNothing, Calls, Reachable,
                NoLeakedEntry
  <2> QED
    BY <2>1, <2>2
<1> QED
  BY <1>1, <1>2, PTL DEF Spec

(* Every thread's control state and every shared variable keep their types. *)
THEOREM TypeCorrect == Spec => []TypeOK
  BY InvHolds, PTL DEF Inv

(***************************************************************************)
(* No future is completed twice, whichever of onCommand, dispose and a     *)
(* refused asyncRequest race for it.                                       *)
(***************************************************************************)
THEOREM CompletedOnce == Spec => []CompletedAtMostOnce
  BY InvHolds, PTL DEF Inv

(* After the first error recorded by dispose the request map stays empty. *)
THEOREM FailedFilterStaysEmpty == Spec => []FailedFilterHoldsNothing
  BY InvHolds, PTL DEF Inv

(* A call that throws, on whatever path, leaves no entry in the request map. *)
THEOREM FailedCallsLeaveNothing == Spec => []NoLeakedEntry
  BY InvHolds, PTL DEF Inv

(***************************************************************************)
(* A thread waiting in getResponse, or holding the future of asyncRequest, *)
(* stays within reach of onCommand or of a disposer.                       *)
(***************************************************************************)
THEOREM WaitersStayReachable == Spec => []NobodyStranded
<1>1. Inv => NobodyStranded
  <2> SUFFICES ASSUME Inv PROVE NobodyStranded
    OBVIOUS
  <2>1. \A i \in CommandId : Reachable(i) => i \in requestMap \cup Draining \cup lost
    BY DEF Reachable, Draining
  <2>2. ASSUME NEW p \in Waiters, pc[p] = "wait", response[cmd[p]] = "null"
        PROVE  cmd[p] \in requestMap \cup Draining \cup lost
    BY <2>1, <2>2, ThreadSets DEF Inv, Calls, IdsOwned, Active
  <2>3. ASSUME NEW i \in sent, result[i] = "value", response[i] = "null"
        PROVE  i \in requestMap \cup Draining \cup lost
    BY <2>1, <2>3 DEF Inv, Calls, TypeOK
  <2> QED
    BY <2>2, <2>3 DEF NobodyStranded
<1> QED
  BY <1>1, InvHolds, PTL

-----------------------------------------------------------------------------
(***************************************************************************)
(* The safety part of the refinement: every step of the correlator is a    *)
(* step of the abstract request/reply channel or leaves it alone.  Only    *)
(* the abstract state of one id moves, except when the unlocked remove     *)
(* drops several entries; Unused and Live say when it stays.               *)
(***************************************************************************)
Live(i) == i \in requestMap \/ \E d \in Disposers : i \in requests[d]

(* A refusal follows a recorded error. *)
RefusedBroken == \A p \in Callers : pc[p] = "refused" => priorError

(* Every step keeps it: the error is never taken back. *)
LEMMA NextRefusedBroken == ASSUME Inv, RefusedBroken, [Next]_vars PROVE RefusedBroken'
<1> USE DEF RefusedBroken, callVars
<1>1. CASE UNCHANGED vars
  BY <1>1 DEF vars
<1>2. ASSUME NEW p \in Callers, BeginRequest(p) \/ CallerStep(p) PROVE RefusedBroken'
  BY <1>2 DEF CallerStep, BeginRequest, Register, SeePriorError, RefuseRequest,
       RefuseAsync, SendRequest, SendAsync, SendThrows, GetResponse,
       GetResponseTimesOut, Finalize, AsyncLocate, AsyncNotFound, AsyncUnlink,
       Goto, Return, Inv, TypeOK
<1>3. CASE Oneway
  BY <1>3 DEF Oneway
<1>4. ASSUME NEW l \in Listeners, OnCommand(l) \/ CorrelateStep(l) \/ OnException(l)
      PROVE  RefusedBroken'
  BY <1>4 DEF OnCommand, CorrelateStep, Correlate, CorrelateMiss, OnException
<1>5. ASSUME NEW d \in Disposers, DisposeStep(d) PROVE RefusedBroken'
  BY <1>5 DEF DisposeStep, DisposeFirst, DisposeAgain, DisposeComplete, DisposeDone
<1>6. ASSUME NEW c \in Closers, CloseBegin(c) \/ CloseDetach(c) PROVE RefusedBroken'
  BY <1>6 DEF CloseBegin, CloseDetach
<1> QED
  BY <1>1, <1>2, <1>3, <1>4, <1>5, <1>6 DEF Next

(* The abstract state of an id, read off the correlator's variables. *)
LEMMA StateCases ==
  ASSUME TypeOK, NEW i \in CommandId
  PROVE  /\ response[i] = "response" => StateOf(i) = "answered"
         /\ response[i] = "error" => StateOf(i) = "failed"
         /\ response[i] = "null" /\ Live(i) => StateOf(i) = "open"
         /\ response[i] = "null" /\ ~Live(i) /\ Unused(i) => StateOf(i) = "fresh"
         /\ response[i] = "null" /\ ~Live(i) /\ ~Unused(i) => StateOf(i) = "withdrawn"
<1>1. i \in requestMap \cup Draining <=> Live(i)
  BY DEF Draining, Live
<1> QED
  BY <1>1 DEF StateOf

LEMMA StateCasesNext ==
  ASSUME TypeOK', NEW i \in CommandId
  PROVE  /\ response'[i] = "response" => StateOf(i)' = "answered"
         /\ response'[i] = "error" => StateOf(i)' = "failed"
         /\ response'[i] = "null" /\ Live(i)' => StateOf(i)' = "open"
         /\ response'[i] = "null" /\ ~Live(i)' /\ Unused(i)' => StateOf(i)' = "fresh"
         /\ response'[i] = "null" /\ ~Live(i)' /\ ~Unused(i)' => StateOf(i)' = "withdrawn"
<1>1. i \in requestMap' \cup Draining' <=> Live(i)'
  BY DEF Draining, Live
<1> QED
  BY <1>1 DEF StateOf

(* An id keeps its abstract state when its future, its place and its use do not change. *)
LEMMA StateKept ==
  ASSUME TypeOK, TypeOK', NEW i \in CommandId,
         response'[i] = response[i], Live(i)' <=> Live(i), Unused(i)' <=> Unused(i)
  PROVE  StateOf(i)' = StateOf(i)
<1>1. response[i] \in {"null", "response", "error"}
  BY DEF TypeOK
<1> QED
  BY <1>1, StateCases, StateCasesNext

LEMMA ChannelUntouched ==
  ASSUME \A i \in CommandId : StateOf(i)' = StateOf(i), priorError' = priorError
  PROVE  UNCHANGED Channel!rrVars
BY DEF Channel!rrVars

LEMMA ChannelMove ==
  ASSUME NEW c \in CommandId, NEW to, StateOf(c)' = to,
         \A i \in CommandId : i # c => StateOf(i)' = StateOf(i)
  PROVE  [i \in CommandId |-> StateOf(i)]' = [[i \in CommandId |-> StateOf(i)] EXCEPT ![c] = to]
OBVIOUS

(* A caller that is past its registration, before and after, uses no fresh id. *)
LEMMA UnusedKept ==
  ASSUME NEW p \in Callers, nextCommandId' = nextCommandId,
         pc[p] \notin {"register", "refused"}, pc'[p] \notin {"register", "refused"},
         \A q \in Callers : q # p => pc'[q] = pc[q] /\ cmd'[q] = cmd[q],
         NEW i \in CommandId
  PROVE  Unused(i)' <=> Unused(i)
BY DEF Unused

(* A caller that is past its registration leaves the channel alone as long as the map does not change. *)
LEMMA CallerQuiet ==
  ASSUME Inv, Inv', NEW p \in Callers,
         pc[p] \notin {"register", "refused"}, pc'[p] \notin {"register", "refused"},
         \A q \in Callers : q # p => pc'[q] = pc[q] /\ cmd'[q] = cmd[q],
         UNCHANGED <<nextCommandId, requestMap, priorError, response, requests>>
  PROVE  UNCHANGED Channel!rrVars
<1>1. ASSUME NEW i \in CommandId PROVE StateOf(i)' = StateOf(i)
  <2>1. Unused(i)' <=> Unused(i)
    BY UnusedKept
  <2>2. Live(i)' <=> Live(i)
    BY DEF Live
  <2> QED
    BY <2>1, <2>2, StateKept DEF Inv
<1> QED
  BY <1>1, ChannelUntouched

(* So does a step in which no caller moves and no future changes its place. *)
LEMMA OthersQuiet ==
  ASSUME Inv, Inv',
         UNCHANGED <<pc, cmd, nextCommandId, requestMap, priorError, response, requests>>
  PROVE  UNCHANGED Channel!rrVars
<1>1. ASSUME NEW i \in CommandId PROVE StateOf(i)' = StateOf(i)
  BY StateKept DEF Inv, Live, Unused
<1> QED
  BY <1>1, ChannelUntouched

(* BeginRequest takes an id that is fresh and stays so. *)
LEMMA BeginRequestRefines ==
  ASSUME Inv, Inv', NEW p \in Callers, BeginRequest(p)
  PROVE  UNCHANGED Channel!rrVars
<1> USE DEF BeginRequest, mapVars, disposeVars
<1>1. ASSUME NEW i \in CommandId PROVE Unused(i)' <=> Unused(i)
  <2>1. /\ pc[p] = "idle" /\ pc'[p] = "register" /\ cmd'[p] = nextCommandId
        /\ \A q \in Callers : q # p => pc'[q] = pc[q] /\ cmd'[q] = cmd[q]
    BY DEF Inv, TypeOK
  <2>2. i >= nextCommandId <=> i >= nextCommandId' \/ i = nextCommandId
    BY BoundAssumption DEF Inv, TypeOK, CommandId
  <2> QED
    BY <2>1, <2>2 DEF Unused
<1>2. ASSUME NEW i \in CommandId PROVE StateOf(i)' = StateOf(i)
  BY <1>1, StateKept DEF Inv, Live
<1> QED
  BY <1>2, ChannelUntouched

(* Oneway uses up a fresh id. *)
LEMMA OnewayRefines == ASSUME Inv, Inv', Oneway PROVE Channel!RRNext
<1> USE DEF Oneway, mapVars, disposeVars, callVars
<1>1. PICK c \in CommandId : c = nextCommandId
  BY BoundAssumption DEF Inv, TypeOK, CommandId
<1>2. StateOf(c) = "fresh"
  BY <1>1, StateCases, BoundAssumption, SMTT(60) DEF Inv, FreshIds, Untouched, Live, Unused, CommandId, TypeOK
<1>3. ~Unused(c)'
  <2>1. ~(c >= nextCommandId')
    BY <1>1 DEF CommandId
  <2>2. ASSUME NEW q \in Callers, cmd[q] = c, pc[q] \in {"register", "refused"} PROVE FALSE
    BY <1>1, <2>2 DEF Inv, IdsOwned, Active, CommandId
  <2> QED
    BY <2>1, <2>2 DEF Unused
<1>4. StateOf(c)' = "withdrawn"
  <2>1. response'[c] = "null" /\ ~Live(c)'
    BY <1>1, BoundAssumption DEF Inv, FreshIds, Untouched, Live, CommandId, TypeOK
  <2> QED
    BY <1>3, <2>1, StateCasesNext DEF Inv
<1>5. ASSUME NEW i \in CommandId, i # c PROVE StateOf(i)' = StateOf(i)
  <2>1. i >= nextCommandId' <=> i >= nextCommandId
    BY <1>1, <1>5 DEF CommandId
  <2> QED
    BY <2>1, StateKept DEF Inv, Live, Unused
<1> QED
  BY <1>2, <1>4, <1>5, ChannelMove DEF Channel!RRNext, Channel!Skip, Channel!Move

(* Register opens the request. *)
LEMMA RegisterRefines ==
  ASSUME Inv, Inv', NEW p \in Callers, Register(p)
  PROVE  Channel!RRNext
<1> USE DEF Register, MapPut, Goto, disposeVars
<1>1. PICK c \in CommandId : c = cmd[p]
  BY DEF Inv, IdsOwned, Active
<1>2. /\ pc[p] = "register" /\ pc'[p] = "send" /\ cmd' = cmd
      /\ \A q \in Callers : q # p => pc'[q] = pc[q]
  BY DEF Inv, TypeOK
<1>3. StateOf(c) = "fresh"
  BY <1>1, <1>2, StateCases DEF Inv, FreshIds, Untouched, Live, Unused
<1>4. StateOf(c)' = "open"
  <2>1. response'[c] = "null" /\ Live(c)'
    BY <1>1, <1>2 DEF Inv, FreshIds, Untouched, Live
  <2> QED
    BY <2>1, StateCasesNext DEF Inv
<1>5. ASSUME NEW i \in CommandId, i # c PROVE StateOf(i)' = StateOf(i)
  <2>1. Unused(i)' <=> Unused(i)
    BY <1>1, <1>2, <1>5 DEF Unused
  <2> QED
    BY <1>1, <1>5, <2>1, StateKept DEF Inv, Live
<1> QED
  BY <1>3, <1>4, <1>5, ChannelMove DEF Channel!RRNext, Channel!Open, Channel!Move

(* SeePriorError leaves the id fresh: the call has only decided. *)
LEMMA SeePriorErrorRefines ==
  ASSUME Inv, Inv', NEW p \in Callers, SeePriorError(p)
  PROVE  UNCHANGED Channel!rrVars
<1> USE DEF SeePriorError, Goto, disposeVars, mapVars
<1>1. /\ pc[p] = "register" /\ pc'[p] = "refused" /\ cmd' = cmd
      /\ \A q \in Callers : q # p => pc'[q] = pc[q]
  BY DEF Inv, TypeOK
<1>2. ASSUME NEW i \in CommandId PROVE StateOf(i)' = StateOf(i)
  <2>1. Unused(i)' <=> Unused(i)
    BY <1>1 DEF Unused
  <2> QED
    BY <2>1, StateKept DEF Inv, Live
<1> QED
  BY <1>2, ChannelUntouched

(* A caller that returns from "refused" gives its id up: nobody else has it. *)
LEMMA RefusedGivesUp ==
  ASSUME Inv, Inv', NEW p \in Callers, NEW c \in CommandId, c = cmd[p],
         pc[p] = "refused", Return(p, "threw"), nextCommandId' = nextCommandId
  PROVE  ~Unused(c)' /\ \A i \in CommandId : i # c => (Unused(i)' <=> Unused(i))
<1> USE DEF Return
<1>1. /\ pc'[p] = "idle"
      /\ \A q \in Callers : q # p => pc'[q] = pc[q] /\ cmd'[q] = cmd[q]
  BY DEF Inv, TypeOK
<1>2. ~(c >= nextCommandId')
  <2>1. c < nextCommandId
    BY DEF Inv, IdsOwned, Active
  <2>2. c \in Nat /\ nextCommandId \in Nat
    BY BoundAssumption DEF Inv, TypeOK, CommandId
  <2> QED
    BY <2>1, <2>2
<1>3. ASSUME NEW q \in Callers, cmd'[q] = c, pc'[q] \in {"register", "refused"} PROVE FALSE
  BY <1>1, <1>3 DEF Inv, IdsOwned, Active
<1>4. ASSUME NEW i \in CommandId, i # c PROVE Unused(i)' <=> Unused(i)
  BY <1>1, <1>4 DEF Unused
<1> QED
  BY <1>2, <1>3, <1>4 DEF Unused

(* RefuseRequest gives the id up. *)
LEMMA RefuseRequestRefines ==
  ASSUME Inv, Inv', NEW p \in Callers, RefuseRequest(p)
  PROVE  Channel!RRNext
<1> USE DEF RefuseRequest, disposeVars, mapVars
<1>1. PICK c \in CommandId : c = cmd[p]
  BY DEF Inv, IdsOwned, Active
<1>2. ~Unused(c)' /\ \A i \in CommandId : i # c => (Unused(i)' <=> Unused(i))
  BY <1>1, RefusedGivesUp
<1>3. response[c] = "null" /\ ~Live(c) /\ Unused(c)
  BY <1>1 DEF Inv, FreshIds, Untouched, Live, Unused
<1>4. StateOf(c) = "fresh" /\ StateOf(c)' = "withdrawn"
  <2>1. response'[c] = "null" /\ ~Live(c)'
    BY <1>3 DEF Live
  <2> QED
    BY <1>2, <1>3, <2>1, StateCases, StateCasesNext DEF Inv
<1>5. ASSUME NEW i \in CommandId, i # c PROVE StateOf(i)' = StateOf(i)
  BY <1>2, <1>5, StateKept DEF Inv, Live
<1> QED
  BY <1>4, <1>5, ChannelMove DEF Channel!RRNext, Channel!Skip, Channel!Move

(* RefuseAsync fails a request that was never opened. *)
LEMMA RefuseAsyncRefines ==
  ASSUME Inv, Inv', RefusedBroken, NEW p \in Callers, RefuseAsync(p)
  PROVE  Channel!RRNext
<1> USE DEF RefuseAsync, SetResponse, disposeVars, mapVars
<1>1. PICK c \in CommandId : c = cmd[p]
  BY DEF Inv, IdsOwned, Active
<1>2. \A i \in CommandId : i # c => (Unused(i)' <=> Unused(i))
  BY <1>1, RefusedGivesUp
<1>3. response[c] = "null" /\ ~Live(c) /\ Unused(c)
  BY <1>1 DEF Inv, FreshIds, Untouched, Live, Unused
<1>4. StateOf(c) = "fresh" /\ StateOf(c)' = "failed"
  <2>1. response'[c] = "error"
    BY <1>1 DEF Inv, TypeOK
  <2> QED
    BY <1>3, <2>1, StateCases, StateCasesNext DEF Inv
<1>5. ASSUME NEW i \in CommandId, i # c PROVE StateOf(i)' = StateOf(i)
  <2>1. response'[i] = response[i] /\ (Live(i)' <=> Live(i))
    BY <1>1, <1>5 DEF Inv, TypeOK, Live
  <2> QED
    BY <1>2, <1>5, <2>1, StateKept DEF Inv
<1>6. priorError
  BY DEF RefusedBroken
<1> QED
  BY <1>4, <1>5, <1>6, ChannelMove DEF Channel!RRNext, Channel!Refuse, Channel!Move

(* The caller's steps between registration and the finalizer. *)
LEMMA CallerQuietRefines ==
  ASSUME Inv, Inv', NEW p \in Callers,
         \/ SendRequest(p) \/ SendAsync(p) \/ SendThrows(p) \/ GetResponse(p)
         \/ GetResponseTimesOut(p) \/ AsyncLocate(p) \/ AsyncNotFound(p)
  PROVE  UNCHANGED Channel!rrVars
<1>1. /\ pc[p] \notin {"register", "refused"}
      /\ pc'[p] \notin {"register", "refused"}
      /\ \A q \in Callers : q # p => pc'[q] = pc[q] /\ cmd'[q] = cmd[q]
  BY DEF SendRequest, SendAsync, SendThrows, GetResponse, GetResponseTimesOut,
         AsyncLocate, AsyncNotFound, Goto, Return, Inv, TypeOK
<1>2. UNCHANGED <<nextCommandId, requestMap, priorError, response, requests>>
  BY DEF SendRequest, SendAsync, SendThrows, GetResponse, GetResponseTimesOut,
         AsyncLocate, AsyncNotFound, disposeVars, mapVars
<1> QED
  BY <1>1, <1>2, CallerQuiet

(***************************************************************************)
(* Taking a set S of entries out of the map, uncompleted, withdraws them.  *)
(* An entry of the map is in no disposer's list and its id is not fresh.   *)
(***************************************************************************)
LEMMA WithdrawEntries ==
  ASSUME Inv, Inv', NEW p \in Callers,
         pc[p] \notin {"register", "refused"}, pc'[p] \notin {"register", "refused"},
         \A q \in Callers : q # p => pc'[q] = pc[q] /\ cmd'[q] = cmd[q],
         UNCHANGED <<nextCommandId, priorError, response, requests>>,
         NEW S \in SUBSET requestMap, requestMap' = requestMap \ S
  PROVE  Channel!RRNext
<1>1. S \in SUBSET CommandId
  BY DEF Inv, TypeOK
<1>2. \A i \in CommandId : Unused(i)' <=> Unused(i)
  BY UnusedKept
<1>3. ASSUME NEW i \in S PROVE StateOf(i) = "open" /\ StateOf(i)' = "withdrawn"
  <2>1. i \in CommandId /\ i \in requestMap /\ response[i] = "null" /\ response'[i] = "null"
    BY <1>1 DEF Inv, Places
  <2>2. Live(i) /\ ~Live(i)'
    BY <2>1 DEF Live, Inv, Places
  <2>3. ~Unused(i)
    BY <2>1 DEF Unused, Inv, FreshIds, Untouched
  <2> QED
    BY <1>2, <2>1, <2>2, <2>3, StateCases, StateCasesNext DEF Inv
<1>4. ASSUME NEW i \in CommandId, i \notin S PROVE StateOf(i)' = StateOf(i)
  BY <1>2, <1>4, StateKept DEF Inv, Live
<1>5. [i \in CommandId |-> StateOf(i)]'
        = [i \in CommandId |-> IF i \in S THEN "withdrawn"
                               ELSE [j \in CommandId |-> StateOf(j)][i]]
  BY <1>3, <1>4
<1> QED
  BY <1>1, <1>3, <1>5 DEF Channel!RRNext, Channel!Withdraw

(* The finalizer withdraws the request when nobody has taken its entry. *)
LEMMA FinalizeRefines ==
  ASSUME Inv, Inv', NEW p \in Callers, Finalize(p)
  PROVE  Channel!RRNext
<1> USE DEF Finalize, Return, disposeVars
<1>1. /\ pc[p] \notin {"register", "refused"}
      /\ pc'[p] \notin {"register", "refused"}
      /\ \A q \in Callers : q # p => pc'[q] = pc[q] /\ cmd'[q] = cmd[q]
  BY DEF Inv, TypeOK
<1>2. requestMap' = requestMap \ (requestMap \cap {cmd[p]})
  OBVIOUS
<1> QED
  BY <1>1, <1>2, WithdrawEntries

(* So does the catch block of asyncRequest, for every entry it drops. *)
LEMMA AsyncUnlinkRefines ==
  ASSUME Inv, Inv', NEW p \in Callers, AsyncUnlink(p)
  PROVE  Channel!RRNext
<1> USE DEF AsyncUnlink, Return, disposeVars
<1>1. /\ pc[p] \notin {"register", "refused"}
      /\ pc'[p] \notin {"register", "refused"}
      /\ \A q \in Callers : q # p => pc'[q] = pc[q] /\ cmd'[q] = cmd[q]
  BY DEF Inv, TypeOK
<1>2. PICK dropped \in SUBSET (crossed[p] \cap requestMap) :
         requestMap' = requestMap \ ({cmd[p]} \cup dropped)
  OBVIOUS
<1>3. requestMap' = requestMap \ (requestMap \cap ({cmd[p]} \cup dropped))
  BY <1>2
<1> QED
  BY <1>1, <1>3, WithdrawEntries

(* Correlate answers the request. *)
LEMMA CorrelateRefines ==
  ASSUME Inv, Inv', NEW l \in Listeners, Correlate(l)
  PROVE  Channel!RRNext
<1> USE DEF Correlate, SetResponse, callVars
<1>1. PICK c \in CommandId : c = correlationId[l]
  BY DEF Inv, TypeOK
<1>2. c \in requestMap /\ response[c] = "null" /\ response'[c] = "response"
  BY <1>1 DEF Inv, TypeOK, Places
<1>3. StateOf(c) = "open" /\ StateOf(c)' = "answered"
  BY <1>2, StateCases, StateCasesNext DEF Inv, Live
<1>4. ASSUME NEW i \in CommandId, i # c PROVE StateOf(i)' = StateOf(i)
  <2>1. response'[i] = response[i] /\ (Live(i)' <=> Live(i)) /\ (Unused(i)' <=> Unused(i))
    BY <1>1, <1>4 DEF Inv, TypeOK, Live, Unused
  <2> QED
    BY <2>1, StateKept DEF Inv
<1> QED
  BY <1>3, <1>4, ChannelMove DEF Channel!RRNext, Channel!Answer, Channel!Move

(* DisposeFirst breaks the channel: the open requests move to the disposer's list. *)
LEMMA DisposeFirstRefines ==
  ASSUME Inv, Inv', NEW d \in Disposers, DisposeFirst(d)
  PROVE  Channel!RRNext
<1> USE DEF DisposeFirst, callVars
<1>1. \A e \in Disposers : requests[e] = {}
  BY DEF Inv, Places
<1>2. /\ requests'[d] = requestMap
      /\ \A e \in Disposers : e # d => requests'[e] = {}
  BY <1>1 DEF Inv, TypeOK
<1>3. ASSUME NEW i \in CommandId PROVE StateOf(i)' = StateOf(i)
  <2>1. Live(i)' <=> Live(i)
    BY <1>1, <1>2 DEF Live
  <2> QED
    BY <2>1, StateKept DEF Inv, Unused
<1> QED
  BY <1>3 DEF Channel!RRNext, Channel!Break

(* Each round of dispose's loop fails one request. *)
LEMMA DisposeCompleteRefines ==
  ASSUME Inv, Inv', NEW d \in Disposers, DisposeComplete(d)
  PROVE  Channel!RRNext
<1> USE DEF DisposeComplete, SetResponse, callVars
<1>1. PICK c \in requests[d] :
         /\ response' = [response EXCEPT ![c] = "error"]
         /\ requests' = [requests EXCEPT ![d] = @ \ {c}]
  OBVIOUS
<1>2. c \in CommandId /\ response[c] = "null" /\ response'[c] = "error" /\ priorError
  BY <1>1 DEF Inv, TypeOK, Places
<1>3. StateOf(c) = "open" /\ StateOf(c)' = "failed"
  BY <1>1, <1>2, StateCases, StateCasesNext DEF Inv, Live
<1>4. ASSUME NEW i \in CommandId, i # c PROVE StateOf(i)' = StateOf(i)
  <2>1. \A e \in Disposers : i \in requests'[e] <=> i \in requests[e]
    BY <1>1, <1>4 DEF Inv, TypeOK
  <2>2. response'[i] = response[i] /\ (Live(i)' <=> Live(i)) /\ (Unused(i)' <=> Unused(i))
    BY <1>1, <1>4, <2>1 DEF Inv, TypeOK, Live, Unused
  <2> QED
    BY <2>2, StateKept DEF Inv
<1> QED
  BY <1>2, <1>3, <1>4, ChannelMove DEF Channel!RRNext, Channel!Fail, Channel!Move

(* The steps of listeners, disposers and closers that only move themselves. *)
LEMMA OthersQuietRefines ==
  ASSUME Inv, Inv',
         \/ \E l \in Listeners : OnCommand(l) \/ CorrelateMiss(l) \/ OnException(l)
         \/ \E d \in Disposers : DisposeAgain(d) \/ DisposeDone(d)
         \/ \E c \in Closers : CloseBegin(c) \/ CloseDetach(c)
         \/ UNCHANGED vars
  PROVE  UNCHANGED Channel!rrVars
<1>1. UNCHANGED <<pc, cmd, nextCommandId, requestMap, priorError, response, requests>>
  BY DEF OnCommand, CorrelateMiss, OnException, DisposeAgain, DisposeDone,
         CloseBegin, CloseDetach, vars, callVars, disposeVars, mapVars
<1> QED
  BY <1>1, OthersQuiet

(***************************************************************************)
(* The correlator implements the safety part of the request/reply channel: *)
(* an id is opened at most once and never after the failure; it is         *)
(* answered, failed or withdrawn at most once, from the open state (or     *)
(* refused or given up from the fresh one); only a broken channel fails    *)
(* requests.                                                               *)
(***************************************************************************)
THEOREM RequestsGoThroughOnce == Spec => Channel!RRSafety
<1>1. Init => Channel!RRInit /\ RefusedBroken
  <2> SUFFICES ASSUME Init PROVE Channel!RRInit /\ RefusedBroken
    OBVIOUS
  <2>1. ASSUME NEW i \in CommandId PROVE StateOf(i) = "fresh"
    <3>1. response[i] = "null" /\ i \notin requestMap \cup Draining
      BY DEF Init, Draining
    <3>2. Unused(i)
      BY BoundAssumption DEF Init, Unused, CommandId
    <3> QED
      BY <3>1, <3>2 DEF StateOf
  <2> QED
    BY <2>1 DEF Channel!RRInit, RefusedBroken, Init
<1>2. Inv /\ Inv' /\ RefusedBroken /\ [Next]_vars => [Channel!RRNext]_(Channel!rrVars)
  <2> SUFFICES ASSUME Inv, Inv', RefusedBroken, [Next]_vars
               PROVE  Channel!RRNext \/ UNCHANGED Channel!rrVars
    OBVIOUS
  <2> QED
    BY BeginRequestRefines, OnewayRefines, RegisterRefines, SeePriorErrorRefines,
       RefuseRequestRefines, RefuseAsyncRefines, CallerQuietRefines,
       FinalizeRefines, AsyncUnlinkRefines, CorrelateRefines,
       DisposeFirstRefines, DisposeCompleteRefines, OthersQuietRefines
       DEF Next, CallerStep, CorrelateStep, DisposeStep
<1>3. Inv /\ RefusedBroken /\ [Next]_vars => RefusedBroken'
  BY NextRefusedBroken
<1> QED
  BY <1>1, <1>2, <1>3, InvHolds, PTL DEF Spec, Channel!RRSafety
=============================================================================
