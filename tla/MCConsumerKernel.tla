-------------------------- MODULE MCConsumerKernel --------------------------
(* Model checking of ConsumerKernel. *)
EXTENDS ConsumerKernel
=============================================================================
