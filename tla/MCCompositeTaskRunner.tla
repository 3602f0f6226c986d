----------------------- MODULE MCCompositeTaskRunner -----------------------
(* Small instances of CompositeTaskRunner for TLC. *)
EXTENDS CompositeTaskRunner
=============================================================================
