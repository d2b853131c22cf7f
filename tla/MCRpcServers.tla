---------------------------- MODULE MCRpcServers ----------------------------
(***************************************************************************)
(* mountd registers with rpcbind, is stopped and started again, while a    *)
(* client uses both.                                                       *)
(***************************************************************************)
EXTENDS RpcServers

MCTable == [s \in Servers |-> <<[prog |-> "MOUNT", vers |-> 3]>>]

MCPortBase == [c \in Servers \cup Clients |-> IF c \in Servers THEN 0 ELSE 10]

=============================================================================
