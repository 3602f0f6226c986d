---------------------- MODULE MCConnectionStateTracker ----------------------
(* Small instances of ConnectionStateTracker. *)
EXTENDS ConnectionStateTracker, TLC

CONSTANTS s1, s2, p1, p2, d1

(* p1 and d1 belong to the first session, p2 to the second. *)
TwoSessions == {s1, s2}
SecondOwnsP2 == [o \in Producers \cup Dests |-> IF o = p2 THEN s2 ELSE s1]
=============================================================================
