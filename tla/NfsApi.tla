------------------------------- MODULE NfsApi -------------------------------
(***************************************************************************)
(* The functions an application calls: the asynchronous ones of lib/libnfs.c,*)
(* which check for a read-only mount or file and hand the request to the   *)
(* version in use, and the synchronous ones of lib/libnfs-sync.c, which    *)
(* call an asynchronous one and run the event loop until its callback has  *)
(* run.                                                                    *)
(***************************************************************************)
EXTENDS Nfs4Request, SequencesExt

CONSTANT
  MaxTries           \* how often nfs_open() tries again (10 in the code)

ASSUME MaxTriesAssumption == MaxTries \in Nat

-----------------------------------------------------------------------------
(***************************************************************************)
(* The asynchronous functions.  v3 and v4 are the functions of the two     *)
(* versions ("": not supported, the call is refused; "done": the callback  *)
(* is called at once), guard says what is checked first:                   *)
(*   "mount"   nfsi->readonly: the callback is given -EROFS                *)
(*   "flags"   the same, if the flags ask for more than reading            *)
(*   "file"    nfsfh->is_readonly: the call is refused                     *)
(*   "chunks"  the count: a read of readmax bytes or more is split         *)
(* nofollow is the variant that does not follow a last symbolic link.      *)
(***************************************************************************)

Fn(v3, v4, guard) == [v3 |-> v3, v4 |-> v4, guard |-> guard, nofollow |-> FALSE]
NoFollow(fn) == [fn EXCEPT !.nofollow = TRUE]

nfs_mount_async == Fn("nfs3_mount", "nfs4_mount", "none")
nfs_umount_async == Fn("nfs3_umount", "done", "none")
nfs_stat_async == Fn("nfs3_stat", "", "none")
nfs_stat64_async == Fn("nfs3_stat64", "nfs4_stat64", "none")
nfs_lstat64_async == NoFollow(nfs_stat64_async)
nfs_open2_async == Fn("nfs3_open", "nfs4_open", "flags")
nfs_open_async == nfs_open2_async
nfs_chdir_async == Fn("nfs3_chdir", "nfs4_chdir", "none")
nfs_pread_async == Fn("nfs3_pread", "nfs4_pread", "chunks")
nfs_read_async == nfs_pread_async
nfs_preadv_async == Fn("nfs3_preadv", "nfs4_preadv", "none")
nfs_readv_async == nfs_preadv_async
nfs_pwrite_async == Fn("nfs3_pwrite", "nfs4_pwrite", "file")
nfs_write_async == Fn("nfs3_write", "nfs4_write", "file")
nfs_close_async == Fn("nfs3_close", "nfs4_close", "none")
nfs_fstat_async == Fn("nfs3_fstat", "", "none")
nfs_fstat64_async == Fn("nfs3_fstat64", "nfs4_fstat64", "none")
nfs_fsync_async == Fn("nfs3_fsync", "nfs4_fsync", "none")
nfs_ftruncate_async == Fn("nfs3_ftruncate", "nfs4_ftruncate", "file")
nfs_truncate_async == Fn("nfs3_truncate", "nfs4_truncate", "mount")
nfs_mkdir2_async == Fn("nfs3_mkdir2", "nfs4_mkdir2", "mount")
nfs_mkdir_async == nfs_mkdir2_async
nfs_rmdir_async == Fn("nfs3_rmdir", "nfs4_rmdir", "mount")
nfs_creat_async == Fn("nfs3_creat", "nfs4_creat", "mount")
nfs_unlink_async == Fn("nfs3_unlink", "nfs4_unlink", "mount")
nfs_mknod_async == Fn("nfs3_mknod", "nfs4_mknod", "mount")
nfs_opendir_async == Fn("nfs3_opendir", "nfs4_opendir", "none")
nfs_lseek_async == Fn("nfs3_lseek", "nfs4_lseek", "none")
nfs_lockf_async == Fn("", "nfs4_lockf", "none")
nfs_fcntl_async == Fn("", "nfs4_fcntl", "none")
nfs_statvfs_async == Fn("nfs3_statvfs", "nfs4_statvfs", "none")
nfs_statvfs64_async == Fn("nfs3_statvfs64", "nfs4_statvfs64", "none")
nfs_readlink_async == Fn("nfs3_readlink", "nfs4_readlink", "none")
nfs_chmod_async == Fn("nfs3_chmod", "nfs4_chmod", "mount")
nfs_lchmod_async == NoFollow(nfs_chmod_async)
nfs_fchmod_async == Fn("nfs3_fchmod", "nfs4_fchmod", "mount")
nfs_chown_async == Fn("nfs3_chown", "nfs4_chown", "mount")
nfs_lchown_async == NoFollow(nfs_chown_async)
nfs_fchown_async == Fn("nfs3_fchown", "nfs4_fchown", "mount")
nfs_utimes_async == Fn("nfs3_utimes", "nfs4_utimes", "mount")
nfs_lutimes_async == NoFollow(nfs_utimes_async)
nfs_utime_async == Fn("nfs3_utime", "nfs4_utime", "mount")
nfs_access_async == Fn("nfs3_access", "nfs4_access", "none")
nfs_access2_async == Fn("nfs3_access2", "nfs4_access2", "none")
nfs_symlink_async == Fn("nfs3_symlink", "nfs4_symlink", "none")
nfs_rename_async == Fn("nfs3_rename", "nfs4_rename", "mount")
nfs_link_async == Fn("nfs3_link", "nfs4_link", "mount")
getexports_async == Fn("mount_getexports", "mount_getexports", "none")
nfs3_acl_async == Fn("nfs3_getacl", "", "none")
nfs4_acl_async == Fn("", "nfs4_getacl", "none")

Async ==
  {nfs_mount_async, nfs_umount_async, nfs_stat_async, nfs_stat64_async, nfs_lstat64_async,
   nfs_open2_async, nfs_open_async, nfs_chdir_async, nfs_pread_async, nfs_read_async,
   nfs_preadv_async, nfs_readv_async, nfs_pwrite_async, nfs_write_async, nfs_close_async,
   nfs_fstat_async, nfs_fstat64_async, nfs_fsync_async, nfs_ftruncate_async,
   nfs_truncate_async, nfs_mkdir2_async, nfs_mkdir_async, nfs_rmdir_async, nfs_creat_async,
   nfs_unlink_async, nfs_mknod_async, nfs_opendir_async, nfs_lseek_async, nfs_lockf_async,
   nfs_fcntl_async, nfs_statvfs_async, nfs_statvfs64_async, nfs_readlink_async,
   nfs_chmod_async, nfs_lchmod_async, nfs_fchmod_async, nfs_chown_async, nfs_lchown_async,
   nfs_fchown_async, nfs_utimes_async, nfs_lutimes_async, nfs_utime_async, nfs_access_async,
   nfs_access2_async, nfs_symlink_async, nfs_rename_async, nfs_link_async, getexports_async,
   nfs3_acl_async, nfs4_acl_async}

-----------------------------------------------------------------------------
(***************************************************************************)
(* The synchronous functions.  does tells what is special about one:       *)
(*   "name"     the result goes into a buffer that may be too small        *)
(*   "copy"     the result is copied into new memory                       *)
(*   "open"     -EIO is tried again                                        *)
(*   "mount"    a failure of the default version is tried with version 4   *)
(*   "umount"   -EIO counts as success                                     *)
(*   "exports"  on a context of its own, destroyed at the end, and with a  *)
(*              timeout                                                    *)
(***************************************************************************)

Wait(fn, does) == [fn |-> fn, does |-> does]

nfs_mount == Wait(nfs_mount_async, "mount")
nfs_umount == Wait(nfs_umount_async, "umount")
nfs_stat == Wait(nfs_stat_async, "plain")
nfs_stat64 == Wait(nfs_stat64_async, "plain")
nfs_lstat64 == Wait(nfs_lstat64_async, "plain")
nfs_open == Wait(nfs_open_async, "open")
nfs_open2 == Wait(nfs_open2_async, "plain")
nfs_chdir == Wait(nfs_chdir_async, "plain")
nfs_pread == Wait(nfs_pread_async, "plain")
nfs_preadv == Wait(nfs_preadv_async, "plain")
nfs_read == Wait(nfs_read_async, "plain")
nfs_readv == Wait(nfs_readv_async, "plain")
nfs_close == Wait(nfs_close_async, "plain")
nfs_fstat == Wait(nfs_fstat_async, "plain")
nfs_fstat64 == Wait(nfs_fstat64_async, "plain")
nfs_pwrite == Wait(nfs_pwrite_async, "plain")
nfs_write == Wait(nfs_write_async, "plain")
nfs_fsync == Wait(nfs_fsync_async, "plain")
nfs_ftruncate == Wait(nfs_ftruncate_async, "plain")
nfs_truncate == Wait(nfs_truncate_async, "plain")
nfs_mkdir == Wait(nfs_mkdir_async, "plain")
nfs_mkdir2 == Wait(nfs_mkdir2_async, "plain")
nfs_rmdir == Wait(nfs_rmdir_async, "plain")
nfs_creat == Wait(nfs_creat_async, "plain")
nfs_mknod == Wait(nfs_mknod_async, "plain")
nfs_unlink == Wait(nfs_unlink_async, "plain")
nfs_opendir == Wait(nfs_opendir_async, "plain")
nfs_lseek == Wait(nfs_lseek_async, "plain")
nfs_lockf == Wait(nfs_lockf_async, "plain")
nfs_fcntl == Wait(nfs_fcntl_async, "plain")
nfs_statvfs == Wait(nfs_statvfs_async, "plain")
nfs_statvfs64 == Wait(nfs_statvfs64_async, "plain")
nfs_readlink == Wait(nfs_readlink_async, "name")
nfs_readlink2 == Wait(nfs_readlink_async, "copy")
nfs_chmod == Wait(nfs_chmod_async, "plain")
nfs_lchmod == Wait(nfs_lchmod_async, "plain")
nfs_fchmod == Wait(nfs_fchmod_async, "plain")
nfs_chown == Wait(nfs_chown_async, "plain")
nfs_lchown == Wait(nfs_lchown_async, "plain")
nfs_fchown == Wait(nfs_fchown_async, "plain")
nfs_utimes == Wait(nfs_utimes_async, "plain")
nfs_lutimes == Wait(nfs_lutimes_async, "plain")
nfs_utime == Wait(nfs_utime_async, "plain")
nfs_access == Wait(nfs_access_async, "plain")
nfs_access2 == Wait(nfs_access2_async, "plain")
nfs_symlink == Wait(nfs_symlink_async, "plain")
nfs_rename == Wait(nfs_rename_async, "plain")
nfs_link == Wait(nfs_link_async, "plain")
nfs3_acl == Wait(nfs3_acl_async, "plain")
nfs4_acl == Wait(nfs4_acl_async, "copy")
mount_getexports_mountport == Wait(getexports_async, "exports")
mount_getexports_timeout == Wait(getexports_async, "exports")
mount_getexports == mount_getexports_timeout

Sync ==
  {nfs_mount, nfs_umount, nfs_stat, nfs_stat64, nfs_lstat64, nfs_open, nfs_open2, nfs_chdir,
   nfs_pread, nfs_preadv, nfs_read, nfs_readv, nfs_close, nfs_fstat, nfs_fstat64, nfs_pwrite,
   nfs_write, nfs_fsync, nfs_ftruncate, nfs_truncate, nfs_mkdir, nfs_mkdir2, nfs_rmdir,
   nfs_creat, nfs_mknod, nfs_unlink, nfs_opendir, nfs_lseek, nfs_lockf, nfs_fcntl, nfs_statvfs,
   nfs_statvfs64, nfs_readlink, nfs_readlink2, nfs_chmod, nfs_lchmod, nfs_fchmod, nfs_chown,
   nfs_lchown, nfs_fchown, nfs_utimes, nfs_lutimes, nfs_utime, nfs_access, nfs_access2,
   nfs_symlink, nfs_rename, nfs_link, nfs3_acl, nfs4_acl, mount_getexports_mountport,
   mount_getexports_timeout, mount_getexports}

-----------------------------------------------------------------------------
(***************************************************************************)
(* A call.  s.how is how it is made: guard as above, whether the mount     *)
(* (readonly) or the file (is_readonly) is read-only, whether version 3    *)
(* was only the default (default_version), and wait, what the synchronous  *)
(* function does ("" for an asynchronous one).                             *)
(***************************************************************************)

\* The file handle that close frees is the application's.
Held(op) == IF op \in {"nfs3_close", "nfs4_close"} THEN {"nfsfh"} ELSE {}

\* What the arguments can be.
Input(op, nofollow) ==
  CASE op \in Ops3 -> {in \in Input3(op) : op # "nfs3_readlink" => in.no_follow = nofollow}
    [] op \in Ops4 -> Input4(op)
    [] OTHER -> {[bits |-> {}]}

\* A file that is open on a read-only mount is open for reading only.
How(fn, wait) ==
  {h \in [guard : {fn.guard}, readonly : BOOLEAN, is_readonly : BOOLEAN, default_version : BOOLEAN,
          wait : {wait}] :
     /\ fn.guard = "file" => (h.readonly => h.is_readonly)
     /\ fn.guard # "file" => ~h.is_readonly
     /\ h.default_version => wait = "mount"}

\* The function of the version in use.
Version(s) ==
  CASE s.op \in Ops3 -> Call3(s)
    [] s.op \in Ops4 -> Call4(s)
    [] s.op = "" -> Refused(s)
    [] s.op = "done" -> Queued(Callback(s, "ok"))

\* A read of readmax bytes or more: the parts are read one after the other.
_nfs_pread_async(s) ==
  IF "big" \in s.in.bits THEN Malloc(s, "rw", "code", Version, Refused) ELSE Version(s)

\* The end of one part: an error, all of it or a short read, or one more part.  The data of
\* the part that ended has been freed.
r_cb(s, e) ==
  LET End(t, f) == {Free(Callback(t, f), "rw")}
      More(t) == UNION {IF u.ret = "refused"
                        THEN End([u EXCEPT !.ret = t.ret], "ENOMEM")
                        ELSE {[u EXCEPT !.ret = t.ret]} : u \in Version(t)}
  IN  IF e # "ok" THEN End(s, e)
      ELSE End(s, "ok") \cup (IF s.left < MaxParts THEN More([s EXCEPT !.left = @ + 1]) ELSE {})

\* nfs_xxx_async()
CallApi(s) ==
  CASE /\ s.how.readonly
       /\ \/ s.how.guard = "mount"
          \/ s.how.guard = "flags" /\ s.in.bits \cap {"O_WRONLY", "O_CREAT", "O_TRUNC"} # {}
         -> Queued(Callback(s, "EROFS"))
    [] s.how.guard = "file" /\ s.how.is_readonly -> Refused(s)
    [] s.how.guard = "chunks" -> _nfs_pread_async(s)
    [] OTHER -> Version(s)

\* The reply rep to the RPC that handler h waits for.
ReplyApi(s, h, rep) ==
  Then(IF s.op \in Ops3 THEN Reply3(s, h, rep) ELSE Reply4(s, h, rep),
       LAMBDA t : IF Live(t, "rw") /\ t.cbs # <<>>
                  THEN r_cb([t EXCEPT !.cbs = <<>>], t.cbs[1]) ELSE {t})

-----------------------------------------------------------------------------
(***************************************************************************)
(* The end of a synchronous function.  s.down is "ERROR" after nfs_service()*)
(* has failed, when wait_for_nfs_reply() has every RPC end with an error,  *)
(* and "CANCEL" after wait_for_reply() has given up, when the context is   *)
(* destroyed; rv is what the function returns, and out whether the result  *)
(* of the request has reached the caller.                                  *)
(***************************************************************************)

\* cb_data.status
SyncStatus(s) ==
  CASE s.ret = "refused" -> "refused"
    [] s.ret # "refused" /\ s.cbs # <<>> -> s.cbs[1]
    [] OTHER -> "EIO"

\* The callback of the wrapper: what it finds wrong after a success is overwritten by
\* cb_data_is_finished(cb_data, status).
Copied(s) ==
  IF SyncStatus(s) # "ok" THEN {[s EXCEPT !.rv = SyncStatus(s)]}
  ELSE LET done == [s EXCEPT !.rv = "ok", !.out = TRUE]
       IN  CASE s.how.wait = "name" -> {done, [done EXCEPT !.out = FALSE]}
             [] s.how.wait = "copy" -> {done} \cup {[t EXCEPT !.rv = "ok"] : t \in Fault(s)}
             [] s.how.wait = "exports" -> {done} \cup UNION {Crash(t) : t \in Fault(s)}
             [] OTHER -> {done}

\* nfs_open(): "try_again" after an -EIO, which may be the server's.
TryAgain(s) ==
  IF s.how.wait = "open" /\ s.tries < MaxTries /\ s.ret = "queued" /\ SyncStatus(s) \in {"EIO", "status"}
  THEN {[Fresh(s.op, s.in, {}, s.budget - s.faults) EXCEPT
           !.how = s.how, !.tries = s.tries + 1, !.heap = s.heap]}
  ELSE {}

\* nfs_mount(): the root's file handle is freed and version 4 is tried.
TryVersion4(s) ==
  {[Fresh("nfs4_mount", [bits |-> s.in.bits \cap {"krb5"}, append |-> FALSE], {}, s.budget - s.faults) EXCEPT
      !.how = [s.how EXCEPT !.default_version = FALSE],
      !.heap = [b \in DOMAIN s.heap \ {"fh1"} |-> s.heap[b]]]}

\* nfs_umount(): "-EIO is epxected at this point".
UmountStatus(s) ==
  IF SyncStatus(s) = "EIO" THEN {[s EXCEPT !.rv = "ok", !.out = TRUE]} ELSE Copied(s)

\* The function returns, or tries once more.
SyncReturn(s) ==
  CASE s.how.default_version /\ SyncStatus(s) # "ok" -> TryVersion4(s)
    [] s.how.wait = "umount" /\ s.ret = "queued" -> UmountStatus(s)
    [] SyncStatus(s) = "EIO" /\ TryAgain(s) # {} -> TryAgain(s)
    [] OTHER -> Copied(s) \cup TryAgain(s)

\* What an RPC in flight is told when the loop has been left: a connection that is being
\* set up when its context is destroyed hears nothing.
Connecting == {"rpc_connect_program_1_cb", "rpc_connect_program_4_cb"}
Told(s, i) == ~(s.down = "CANCEL" /\ s.calls[i] \in Connecting)

=============================================================================
