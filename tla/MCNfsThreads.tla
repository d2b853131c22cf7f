---------------------------- MODULE MCNfsThreads ----------------------------
(* Instances of NfsThreads for TLC. *)
EXTENDS NfsThreads

CONSTANTS t1, t2
=============================================================================
