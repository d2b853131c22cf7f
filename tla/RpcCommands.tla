----------------------------- MODULE RpcCommands -----------------------------
(***************************************************************************)
(* What an rpc_context promises its application about a command, whatever  *)
(* happens to connections, timeouts and retransmissions below:             *)
(* include/nfsc/libnfs-raw.h, "The callback will be invoked once the       *)
(* command completes", and rpc_cancel_pdu(), after which it is not invoked.*)
(* A reply, a timeout or a purge completes a set of commands at once.      *)
(***************************************************************************)
EXTENDS Sequences

CONSTANTS
    Pdus,           \* the commands the application issues, each one once
    Status          \* RPC_STATUS_SUCCESS, ..., what a callback is told

VARIABLES
    life,           \* "unused", "live" once queued, "freed" in the end
    cbs             \* the statuses the callback of each command was called with

commands == <<life, cbs>>

CommandsInit ==
    /\ life = [p \in Pdus |-> "unused"]
    /\ cbs = [p \in Pdus |-> <<>>]

Submit(p) ==
    /\ life[p] = "unused"
    /\ life' = [life EXCEPT ![p] = "live"]
    /\ UNCHANGED cbs

Complete(S, status) ==
    /\ \A p \in S : life[p] = "live"
    /\ life' = [p \in Pdus |-> IF p \in S THEN "freed" ELSE life[p]]
    /\ cbs' = [p \in Pdus |-> IF p \in S THEN Append(cbs[p], status) ELSE cbs[p]]

Cancel(p) ==
    /\ life[p] = "live"
    /\ life' = [life EXCEPT ![p] = "freed"]
    /\ UNCHANGED cbs

CommandsNext ==
    \/ \E p \in Pdus : Submit(p) \/ Cancel(p)
    \/ \E S \in SUBSET Pdus, status \in Status : Complete(S, status)

CommandsSpec == CommandsInit /\ [][CommandsNext]_commands
=============================================================================
