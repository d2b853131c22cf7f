--------------------------- MODULE MCRpcTransport ---------------------------
(* Instances of RpcTransport for TLC. *)
EXTENDS RpcTransport

CONSTANTS p1, p2, p3

\* rpc_hash_xid with two chains: p1 and p3 share one.
TwoChains == [p \in Pdus |-> IF p = p2 THEN 1 ELSE 0]

\* num_tcp_reconnect = -1: reconnect without end.
Forever == -1
=============================================================================
