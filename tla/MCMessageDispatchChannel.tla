---------------------- MODULE MCMessageDispatchChannel ----------------------
(* Small instances of MessageDispatchChannel for TLC. *)
EXTENDS MessageDispatchChannel

CONSTANT m3

(* One message has a higher priority than the others. *)
MCPriorityOf == [m \in Messages |-> IF m = m3 THEN 9 ELSE 4]
=============================================================================
