------------------------- MODULE MCSessionDispatch -------------------------
(* Small instances of SessionDispatch for TLC. *)
EXTENDS SessionDispatch

CONSTANT m3

(* The message m3 is for the last consumer, all others are for the first. *)
MCTarget == [m \in Messages |-> IF m = m3 THEN NumConsumers ELSE 1]

(* Once calls have overlapped, which four of the five properties end with, two messages
   are enough. *)
FewOverlapped == overlapped => Len(arrived) <= 2

(* The application threads, and the messages for the first consumer, are alike. *)
Alike == Permutations(Controllers) \cup Permutations(Messages \ {m3})
=============================================================================
