-------------------------- MODULE RequestContract --------------------------
(***************************************************************************)
(* What include/nfsc/libnfs.h promises of every nfs_xxx_async() function:  *)
(* it returns 0 and the callback is invoked once, or it returns -1 and the *)
(* callback is not invoked.  The callback may be invoked before the        *)
(* function has returned, and the function may be called again once a call *)
(* is over.  Nothing is promised of a program that has been stopped.       *)
(***************************************************************************)

VARIABLE
  phase              \* "new", "pending", "reported", "refused" or "stopped"

Init == phase = "new"

Refuse == phase = "new" /\ phase' = "refused"

Accept == phase = "new" /\ phase' \in {"pending", "reported"}

Report == phase = "pending" /\ phase' = "reported"

Again == phase \in {"refused", "reported"} /\ phase' = "new"

Stop == phase' = "stopped"

Next == Refuse \/ Accept \/ Report \/ Again \/ Stop

\* An accepted request is reported.
Spec == Init /\ [][Next]_phase /\ WF_phase(Report)

=============================================================================
