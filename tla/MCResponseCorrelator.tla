------------------------ MODULE MCResponseCorrelator ------------------------
(* Small instances of ResponseCorrelator for TLC. *)
EXTENDS ResponseCorrelator
=============================================================================
