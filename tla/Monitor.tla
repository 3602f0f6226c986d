------------------------------ MODULE Monitor ------------------------------
(***************************************************************************)
(* What a monitor promises its users (decaf's Synchronizable: lock,        *)
(* unlock, wait, notify, notifyAll) and what the other modules of this     *)
(* project take it to be: one owner at a time, entered as often as it is   *)
(* left, a wait that gives the monitor up and joins the waiters in one     *)
(* step, a notify that picks one of them, and a return from the wait only  *)
(* as owner again, at the depth the monitor was held before.               *)
(***************************************************************************)
EXTENDS Naturals

CONSTANTS Users,       \* the threads that use the monitor
          Nobody

VARIABLES owner,       \* the thread in the monitor
          depth,       \* how often it has entered
          place,       \* each thread: out of the wait, waiting, on its way back
          saved        \* the depth it comes back to

vars == <<owner, depth, place, saved>>

Init ==
    /\ owner = Nobody /\ depth = 0
    /\ place = [u \in Users |-> "out"]
    /\ saved = [u \in Users |-> 0]

Enter(u) ==
    /\ owner = Nobody /\ place[u] = "out"
    /\ owner' = u /\ depth' = 1
    /\ UNCHANGED <<place, saved>>

EnterAgain(u) ==
    /\ owner = u
    /\ depth' = depth + 1
    /\ UNCHANGED <<owner, place, saved>>

Exit(u) ==
    /\ owner = u
    /\ depth' = depth - 1
    /\ owner' = IF depth = 1 THEN Nobody ELSE u
    /\ UNCHANGED <<place, saved>>

Wait(u) ==
    /\ owner = u
    /\ owner' = Nobody /\ depth' = 0
    /\ place' = [place EXCEPT ![u] = "waiting"]
    /\ saved' = [saved EXCEPT ![u] = depth]

Waiters == {w \in Users : place[w] = "waiting"}

Notify(u) ==
    /\ owner = u
    /\ \E w \in Waiters : place' = [place EXCEPT ![w] = "back"]
    /\ UNCHANGED <<owner, depth, saved>>

NotifyAll(u) ==
    /\ owner = u
    /\ place' = [w \in Users |-> IF place[w] = "waiting" THEN "back" ELSE place[w]]
    /\ UNCHANGED <<owner, depth, saved>>

(* The time is over, or the thread is interrupted. *)
GiveUp(u) ==
    /\ place[u] = "waiting"
    /\ place' = [place EXCEPT ![u] = "back"]
    /\ UNCHANGED <<owner, depth, saved>>

Return(u) ==
    /\ owner = Nobody /\ place[u] = "back"
    /\ owner' = u /\ depth' = saved[u]
    /\ place' = [place EXCEPT ![u] = "out"]
    /\ saved' = [saved EXCEPT ![u] = 0]

Next == \E u \in Users :
    \/ Enter(u) \/ EnterAgain(u) \/ Exit(u)
    \/ Wait(u) \/ Notify(u) \/ NotifyAll(u) \/ GiveUp(u) \/ Return(u)

Spec == Init /\ [][Next]_vars
=============================================================================
