----------------------- MODULE MCInterruptionRecovery -----------------------
(* Small instances of InterruptionRecovery for TLC. *)
EXTENDS InterruptionRecovery, TLC

(* The connection breaks a second time only while there is at most one consumer. *)
SecondBreakAlone == breaks = 2 => Cardinality({c \in Consumers : life[c] # "new"}) <= 1

Alike == Permutations(Consumers)
=============================================================================
