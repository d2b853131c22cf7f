--------------------------- MODULE MCNfsRequests ---------------------------
(***************************************************************************)
(* Instances of NfsRequests for TLC.                                       *)
(***************************************************************************)
EXTENDS NfsRequests

MCOps == Ops3 \cup Ops4 \cup {"", "done"}
MCWaits == {""} \cup {w.does : w \in Sync}

\* The functions that break the contract, or leave memory behind, when an allocation or a
\* queueing fails (see the README): they are checked with everything that can happen but
\* that.
MCFaultless ==
  {"nfs3_close", "nfs3_creat", "nfs3_open", "nfs3_fchmod", "nfs3_fchown", "nfs3_fstat", "nfs3_fstat64",
   "nfs3_fsync", "nfs3_ftruncate", "nfs3_getacl", "nfs3_mknod", "nfs3_mount", "nfs3_opendir", "nfs3_truncate",
   "nfs4_access", "nfs4_access2", "nfs4_chdir", "nfs4_chmod", "nfs4_chown", "nfs4_fcntl",
   "nfs4_fstat64", "nfs4_mknod", "nfs4_mount", "nfs4_stat64", "nfs4_symlink", "nfs4_utime",
   "nfs4_utimes", "nfs4_write"}

=============================================================================
