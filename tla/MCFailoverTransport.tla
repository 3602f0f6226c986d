------------------------ MODULE MCFailoverTransport ------------------------
(* Small instances of FailoverTransport for TLC: one constant set of commands for
   each kind. *)
EXTENDS FailoverTransport

CONSTANTS Requests, Oneways, States, Acks, Shutdowns

MCCommands == Requests \cup Oneways \cup States \cup Acks \cup Shutdowns

MCKind ==
    [c \in Commands |->
        CASE c \in Requests  -> "request"
          [] c \in Oneways   -> "oneway"
          [] c \in States    -> "state"
          [] c \in Acks      -> "ack"
          [] c \in Shutdowns -> "shutdown"]
=============================================================================
