---------------------------- MODULE Nfs4Request ----------------------------
(***************************************************************************)
(* The requests of NFS version 4 (lib/nfs_v4.c).  A request on a path is   *)
(* one COMPOUND that looks the path up and does the operation at its end;  *)
(* it is sent again, with a new path, for every symbolic link in the way.  *)
(* All of a request hangs on one struct nfs4_cb_data (block data1): its    *)
(* path, the last component of the path (name, filler.data) and the blobs  *)
(* of the filler.                                                          *)
(***************************************************************************)
EXTENDS Nfs3Request

CONSTANT
  MaxLinks           \* symbolic links on the way to a file; nfs_v4.c has no limit of its own

ASSUME MaxLinksAssumption == MaxLinks \in Nat

\* data->cb(e, ...); free_nfs4_cb_data(data)
Done4(s, e) == {Free(Callback(Use(s, "data1"), e), "data1")}

NoMemory4(s) == Done4(s, "ENOMEM")

\* free_nfs4_cb_data(data); return -1
Undo4(s) == Refused(Free(s, "data1"))

\* The function reports e, frees data and returns an error, for which its caller returns;
\* otherwise the caller goes on.
Ended4(s, e) == Then(Done4(s, e), Fails)
Unless(S, Ok(_)) == Returned(S, Ok, Only)

\* check_nfs4_error() of a reply.
check_nfs4_error(s, rep) == IF rep = "ok" THEN {s} ELSE Ended4(s, Errno(rep))

\* nfs4_find_op(): a reply without the result that was asked for.
nfs4_find_op(s) == {s} \cup UNION {Ended4(t, "EINVAL") : t \in Fault(s)}

\* The block of memory b of data.
Blob(s, b, Ok(_), Fail(_)) == Malloc(s, b, "data1", Ok, Fail)

-----------------------------------------------------------------------------
(***************************************************************************)
(* Path lookup.  next is data->continue_cb.                                *)
(***************************************************************************)

\* nfs4_resolve_path(), the array of operations and the COMPOUND; nothing is freed when
\* one of them fails.
nfs4_lookup_path_async(s, next) ==
  Send([s EXCEPT !.next = next], "nfs4_lookup_path_1_cb", Only, Fails)

\* A lookup started by the handler of a reply.
Lookup4(s, next) == Returned(nfs4_lookup_path_async(s, next), Only, NoMemory4)

\* Mutant: O_NOFOLLOW is not looked at.
nfs4_open_readlink_Mutant(s) == {Callback(s, "ELOOP")}

\* nfs4_open_readlink(): the last component, sent with OPEN, is a symbolic link.
nfs4_open_readlink(s) ==
  IF "O_NOFOLLOW" \in s.in.bits THEN {Callback(s, "ELOOP")}
  ELSE Lookup4([s EXCEPT !.links = @ + 1], "nfs4_open_readlink_cb")

\* The path holds no link (or only one at its end, which is not to be followed); a link
\* has to be read; OPEN met a link; or the reply makes no sense.
nfs4_lookup_path_1_cb(s, rep) ==
  LET Readlink == Send([s EXCEPT !.links = @ + 1], "nfs4_lookup_path_2_cb", Only, NoMemory4)
  IN  Unless(check_nfs4_error(s, rep), LAMBDA t :
        Tell(t, "continue")
        \cup (IF t.links < MaxLinks THEN Readlink ELSE {})
        \cup (IF t.links < MaxLinks /\ t.next = "nfs4_open_cb" THEN nfs4_open_readlink(t) ELSE {})
        \cup UNION {Done4(u, e) : u \in Fault(t), e \in {"EINVAL", "EFAULT"}})

\* The target of the link replaces the link in the path; the new path may be invalid.
nfs4_lookup_path_2_cb(s, rep) ==
  Unless(check_nfs4_error(s, rep), LAMBDA t : Unless(nfs4_find_op(t), LAMBDA u :
    NoMemory4(u) \cup Lookup4(u, u.next)))

-----------------------------------------------------------------------------
(***************************************************************************)
(* The regular requests.  What tells one from another:                     *)
(*   on       "path", "split" (the last component of the path is not       *)
(*            looked up but goes into filler.data) or "fh"                 *)
(*   blobs    what is allocated before the COMPOUND is sent                *)
(*   noblob   what happens when that fails: "free" data and return -1,     *)
(*            "loud" (after a callback), "leak" (without freeing data),    *)
(*            "ignore" (the result is not looked at)                       *)
(*   nosend   when the COMPOUND cannot be sent: "free" or "leak"           *)
(*   result   the handler looks for the operation's result in the reply    *)
(*   errors   what it may report although the reply is a success, when the *)
(*            result is malformed or cannot be copied                      *)
(*   denies   a successful reply may still mean an error (-EACCES)         *)
(*   twice    a malformed result is reported, and then the success too     *)
(***************************************************************************)

OnPath4 == [on |-> "path", blobs |-> <<>>, noblob |-> "free", nosend |-> "free",
            result |-> FALSE, errors |-> {}, denies |-> FALSE, twice |-> FALSE]
OnSplit4 == [OnPath4 EXCEPT !.on = "split"]
OnFh4 == [OnPath4 EXCEPT !.on = "fh"]

nfs4_chdir == [OnPath4 EXCEPT !.blobs = <<"name">>, !.noblob = "loud"]
nfs4_stat64 == [OnPath4 EXCEPT !.blobs = <<"name">>, !.noblob = "loud", !.result = TRUE,
                               !.twice = TRUE]
nfs4_mkdir2 == [OnSplit4 EXCEPT !.blobs = <<"blob0", "blob1">>]
nfs4_rmdir == OnSplit4
nfs4_unlink == OnSplit4
nfs4_symlink == [OnSplit4 EXCEPT !.blobs = <<"blob0">>, !.noblob = "ignore"]
nfs4_readlink == [OnPath4 EXCEPT !.result = TRUE, !.errors = {"ENOMEM"}]
nfs4_chmod == [OnPath4 EXCEPT !.blobs = <<"blob3">>, !.nosend = "leak"]
nfs4_chown == [OnSplit4 EXCEPT !.blobs = <<"blob3">>, !.nosend = "leak"]
nfs4_access == [OnPath4 EXCEPT !.blobs = <<"blob3">>, !.noblob = "leak", !.result = TRUE,
                               !.denies = TRUE]
nfs4_access2 == [nfs4_access EXCEPT !.denies = FALSE]
nfs4_utimes == [OnPath4 EXCEPT !.blobs = <<"blob3">>, !.noblob = "leak"]
nfs4_utime == nfs4_utimes

nfs4_statvfs == [OnFh4 EXCEPT !.result = TRUE, !.errors = {"EINVAL"}]
nfs4_statvfs64 == nfs4_statvfs
nfs4_fstat64 == [OnFh4 EXCEPT !.result = TRUE, !.twice = TRUE]
nfs4_getacl == [OnFh4 EXCEPT !.result = TRUE, !.errors = {"EIO"}]
nfs4_pread == [OnFh4 EXCEPT !.result = TRUE]
nfs4_preadv == [OnFh4 EXCEPT !.result = TRUE]
nfs4_pwrite == [OnFh4 EXCEPT !.result = TRUE]
nfs4_fsync == OnFh4
nfs4_ftruncate == [OnFh4 EXCEPT !.blobs = <<"blob3">>]
nfs4_fchmod == [OnFh4 EXCEPT !.blobs = <<"blob3">>]
nfs4_fchown == [OnFh4 EXCEPT !.blobs = <<"blob3">>]
nfs4_lockf == [OnFh4 EXCEPT !.result = TRUE]

Regular4 ==
  [nfs4_chdir |-> nfs4_chdir, nfs4_stat64 |-> nfs4_stat64, nfs4_mkdir2 |-> nfs4_mkdir2,
   nfs4_rmdir |-> nfs4_rmdir, nfs4_unlink |-> nfs4_unlink, nfs4_symlink |-> nfs4_symlink,
   nfs4_readlink |-> nfs4_readlink, nfs4_chmod |-> nfs4_chmod, nfs4_chown |-> nfs4_chown,
   nfs4_access |-> nfs4_access, nfs4_access2 |-> nfs4_access2, nfs4_utimes |-> nfs4_utimes,
   nfs4_utime |-> nfs4_utime, nfs4_statvfs |-> nfs4_statvfs, nfs4_statvfs64 |-> nfs4_statvfs64,
   nfs4_fstat64 |-> nfs4_fstat64, nfs4_getacl |-> nfs4_getacl, nfs4_pread |-> nfs4_pread,
   nfs4_preadv |-> nfs4_preadv, nfs4_pwrite |-> nfs4_pwrite, nfs4_fsync |-> nfs4_fsync,
   nfs4_ftruncate |-> nfs4_ftruncate, nfs4_fchmod |-> nfs4_fchmod, nfs4_fchown |-> nfs4_fchown,
   nfs4_lockf |-> nfs4_lockf]

\* The blobs, one after the other.
Blobs4(s, Ok(_)) ==
  LET p == Regular4[s.op]
      Fail(t) ==
        CASE p.noblob = "free" -> Undo4(t)
          [] p.noblob = "loud" -> Then(NoMemory4(t), Refused)
          [] p.noblob = "leak" -> Refused(t)
          [] p.noblob = "ignore" -> Ok(t)
      Second(t) == IF Len(p.blobs) = 2 THEN Blob(t, p.blobs[2], Ok, Fail) ELSE Ok(t)
  IN  IF p.blobs = <<>> THEN Ok(s) ELSE Blob(s, p.blobs[1], Second, Fail)

\* init_cb_data_full_path(): data and its path, which nfs_normalize_path() may refuse.
init_cb_data_full_path(s) ==
  LET Undo(t) == Fails(Free(t, "data1"))
      Path(t) == Undo(t) \cup Blob(t, "path1", Only, Undo)
  IN  Malloc(s, "data1", "code", Path, Fails)

\* A request starts with it; without data it is refused.
WithPath4(s, Ok(_)) == Returned(init_cb_data_full_path(s), Ok, Refused)

\* data_split_path(): the copy of the path or of its last component is not looked at; a
\* NULL one is followed when the operations of the COMPOUND are filled in, except the
\* name in chown, which does not use it.
data_split_path(s) ==
  LET Missing(t) == Crash(t) \cup (IF s.op = "nfs4_chown" THEN {t} ELSE {})
  IN  Blob(s, "name", Only, Missing)

\* nfs4_xxx_async() of a request on a path.
CallPath4(s) ==
  LET p == Regular4[s.op]
      NotSent(t) == IF p.nosend = "leak" THEN Refused(t) ELSE Undo4(t)
      Compound(t) == Returned(nfs4_lookup_path_async(t, "nfs4_xxx_cb"), Queued, NotSent)
      Split(t) == IF p.on = "split" THEN Then(data_split_path(t), Compound) ELSE Compound(t)
  IN  WithPath4(s, LAMBDA t : Blobs4(t, Split))

\* nfs4_xxx_async() of a request on an open file, or on the root (statvfs).
CallFh4(s) ==
  LET Compound(t) == Send(t, "nfs4_xxx_cb", Queued, Undo4)
  IN  Malloc(s, "data1", "code", LAMBDA t : Blobs4(t, Compound), Refused)

\* The reply of a regular request.
nfs4_xxx_cb(s, rep) ==
  LET p == Regular4[s.op]
      Success(t) == Done4(IF s.op = "nfs4_chdir" THEN Give(t, "path1", "app") ELSE t, "ok")
      Good(t) ==
        Success(t)
        \cup (IF p.denies THEN Done4(t, "EACCES") ELSE {})
        \cup UNION {Done4(u, e) : u \in Fault(t), e \in p.errors}
        \cup (IF p.twice THEN UNION {Then(Done4(u, "EINVAL"), Success) : u \in Fault(t)} ELSE {})
  IN  Unless(check_nfs4_error(s, rep), LAMBDA t :
        IF p.result THEN Unless(nfs4_find_op(t), Good) ELSE Good(t))

-----------------------------------------------------------------------------
(***************************************************************************)
(* mount: SETCLIENTID, SETCLIENTID_CONFIRM, the lookup of the export and   *)
(* its rsize and wsize                                                     *)
(***************************************************************************)

\* A result that cannot be parsed is reported, and then the success too.
nfs4_mount_5_cb(s, rep) ==
  Unless(check_nfs4_error(s, rep), LAMBDA t : Unless(nfs4_find_op(t), LAMBDA u :
    Done4(u, "ok")
    \cup UNION {Then(Done4(v, "EINVAL"), LAMBDA w : Done4(w, "ok")) : v \in Fault(u)}))

nfs4_mount_4_cb(s) ==
  Unless(nfs4_find_op(s), LAMBDA t :
    Malloc(t, "fh1", "app", LAMBDA u : Send(u, "nfs4_mount_5_cb", Only, NoMemory4), NoMemory4))

nfs4_mount_3_cb(s, rep) ==
  Unless(check_nfs4_error(s, rep), LAMBDA t :
    Blob(t, "name", LAMBDA u : IF Live(u, "path1") THEN Lookup4(u, "nfs4_mount_4_cb") ELSE Crash(u),
         NoMemory4))

nfs4_mount_2_cb(s, rep) ==
  Unless(check_nfs4_error(s, rep), LAMBDA t : Send(t, "nfs4_mount_3_cb", Only, NoMemory4))

\* check_nfs4_error() is given a NULL result: it follows it when the connection is up.
\* Where address 0 can be read, what is found there is taken for the status.
nfs4_mount_1_cb(s, rep) ==
  IF rep # "ok" THEN Done4(s, Errno(rep))
  ELSE Crash(s) \cup Done4(s, "status") \cup Send(s, "nfs4_mount_2_cb", Only, NoMemory4)

\* The names of the server and of the export are the context's; the result of the strdup of
\* the path is not looked at.
nfs4_mount_async(s) ==
  LET Connect(t) == Returned(rpc_connect_port_async(t, "nfs4_mount_1_cb"), Queued, Undo4)
      Path(t) == Blob(t, "path1", Connect, Connect)
  IN  Refused(s) \cup Malloc(s, "data1", "code", Path, Refused)

-----------------------------------------------------------------------------
(***************************************************************************)
(* open, creat and truncate                                                *)
(***************************************************************************)

\* The file handle goes to the application.
Opened4(s) == Done4(Give(s, "nfsfh", "app"), "ok")

nfs4_open_setattr_cb(s, rep) == Unless(check_nfs4_error(s, rep), Opened4)

nfs4_truncate_close_cb(s, rep) == Unless(check_nfs4_error(s, rep), LAMBDA t : Done4(t, "ok"))

\* data->open_cb: SETATTR of the size (O_TRUNC) or of the mode (O_EXCL), or, in truncate,
\* SETATTR and CLOSE.
open_cb(s) ==
  CASE s.op = "nfs4_truncate" -> Send(s, "nfs4_truncate_close_cb", Only, NoMemory4)
    [] s.op # "nfs4_truncate" /\ s.in.bits \cap {"O_TRUNC", "O_EXCL"} # {} ->
         Send(s, "nfs4_open_setattr_cb", Only, NoMemory4)
    [] OTHER -> Opened4(s)

nfs4_open_confirm_cb(s, rep) ==
  Unless(check_nfs4_error(Use(s, "nfsfh"), rep), LAMBDA t : Unless(nfs4_find_op(t), open_cb))

\* ACCESS may have granted less than asked for; OPEN may ask for a confirmation.
nfs4_open_cb(s) ==
  LET Confirm(t) == Send(t, "nfs4_open_confirm_cb", Only, NoMemory4)
      Fh(t) == Malloc(t, "fh1", "nfsfh", LAMBDA u : Confirm(u) \cup open_cb(u), NoMemory4)
  IN  Unless(nfs4_find_op(s), LAMBDA t : Done4(t, "EINVAL") \cup Blob(t, "nfsfh", Fh, NoMemory4))

\* The target of the link is the new path: it is split and opened.
nfs4_open_readlink_cb(s) ==
  LET Split(t) == Blob(t, "name", LAMBDA u : Lookup4(u, "nfs4_open_cb"), Crash)
  IN  Unless(nfs4_find_op(s), LAMBDA t :
        UNION {NoMemory4(u) : u \in Fault(t)} \cup Done4(t, "EINVAL") \cup Split(t))

\* nfs4_open_async_internal(), with nfs4_open_call_mutex locked.
nfs4_open_async_internal(s) ==
  LET Compound(t) == Then(data_split_path(t), LAMBDA u :
                       Returned(nfs4_lookup_path_async(u, "nfs4_open_cb"), Queued, Undo4))
      locked == [s EXCEPT !.heap = [b \in DOMAIN @ \cup {"mutex"} |->
                                      IF b = "mutex" THEN "data1" ELSE @[b]]]
  IN  IF "O_CREAT" \in s.in.bits
      THEN Blob(locked, "blob1", LAMBDA t : Blob(t, "blob2", Compound, Undo4), Undo4)
      ELSE Compound(locked)

\* blob3 is the argument of open_cb's SETATTR.
nfs4_open_async(s) ==
  WithPath4(s, LAMBDA t :
    IF s.in.bits \cap {"O_TRUNC", "O_EXCL"} # {}
    THEN Blob(t, "blob3", nfs4_open_async_internal, Undo4)
    ELSE nfs4_open_async_internal(t))

nfs4_truncate_async(s) ==
  WithPath4(s, LAMBDA t : Blob(t, "blob3", nfs4_open_async_internal, Undo4))

\* Mutant: nfsfh goes with data when the COMPOUND cannot be sent.
nfs4_close_async_Mutant(s) ==
  Malloc(s, "data1", "code", LAMBDA t : Send(Give(t, "nfsfh", "data1"), "nfs4_close_cb", Queued, Undo4), Refused)

\* close: the application's nfsfh is data's from now on, unless nothing is sent.
nfs4_close_async(s) ==
  LET Locked(t) == [Give(t, "nfsfh", "data1") EXCEPT !.heap = [b \in DOMAIN @ \cup {"mutex"} |->
                                      IF b = "mutex" THEN "data1" ELSE @[b]]]
      NotSent(t) == Undo4(Give(t, "nfsfh", "app"))
  IN  Malloc(s, "data1", "code", LAMBDA t : Send(Locked(t), "nfs4_close_cb", Queued, NotSent), Refused)

\* Mutant: nfsfh is freed and looked at again.
nfs4_close_cb_Mutant(s, rep) ==
  Unless(check_nfs4_error(Use(Free(s, "nfsfh"), "nfsfh"), rep), LAMBDA t : Done4(t, "ok"))

nfs4_close_cb(s, rep) ==
  Unless(check_nfs4_error(Use(s, "nfsfh"), rep), LAMBDA t : Done4(t, "ok"))

-----------------------------------------------------------------------------
(***************************************************************************)
(* link and rename: the directory of the new name, then the old path       *)
(***************************************************************************)

\* The file handle of the directory, for blob0.
DirectoryFh(s, Ok(_)) ==
  Unless(nfs4_find_op(s), LAMBDA t :
    Blob(t, "blob0", LAMBDA u : Malloc(u, "fh1", "blob0", Ok, NoMemory4), NoMemory4))

\* The old path, copied into blob1 by nfs4_link_async(), becomes the path.
nfs4_link_1_cb(s) ==
  DirectoryFh(s, LAMBDA t :
    Done4(t, "EFAULT")
    \cup Returned(nfs4_lookup_path_async(Free(t, "path1"), "nfs4_link_2_cb"),
                  Only, LAMBDA u : Done4(u, "EFAULT")))

\* The old path is resolved and split: blob1 is its last component.
nfs4_rename_1_cb(s) ==
  DirectoryFh(s, LAMBDA t :
    Done4(t, "EINVAL")
    \cup Blob(t, "blob1", LAMBDA u : Lookup4(u, "nfs4_rename_2_cb"), Crash))

CallTwoPaths4(s, next) ==
  LET Compound(t) == Then(data_split_path(t), LAMBDA u :
                       Returned(nfs4_lookup_path_async(u, next), Queued, Undo4))
  IN  WithPath4(s, LAMBDA t :
        Blob(t, IF s.op = "nfs4_link" THEN "blob1" ELSE "blob2", Compound, Undo4))

nfs4_link_async(s) == CallTwoPaths4(s, "nfs4_link_1_cb")

nfs4_rename_async(s) == CallTwoPaths4(s, "nfs4_rename_1_cb")

-----------------------------------------------------------------------------
(***************************************************************************)
(* mknod and opendir                                                       *)
(***************************************************************************)

\* The type of the file is checked first; when the first blob cannot be allocated the
\* function returns 0.
nfs4_mknod_async(s) ==
  LET Compound(t) == Then(data_split_path(t), LAMBDA u :
                       Returned(nfs4_lookup_path_async(u, "nfs4_mknod_cb"), Queued, Undo4))
  IN  Refused(s) \cup WithPath4(s, LAMBDA t :
        Blob(t, "blob0", LAMBDA u : Blob(u, "blob1", Compound, Undo4), Queued))

\* A page: an entry that cannot be allocated or parsed, the next page, or the end.
nfs4_parse_readdir(s) ==
  UNION {Done4(t, e) : t \in Fault(s), e \in {"ENOMEM", "EINVAL"}}
  \cup (IF s.left < MaxParts
        THEN Send([s EXCEPT !.left = @ + 1], "nfs4_opendir_2_cb", Only, NoMemory4) ELSE {})
  \cup Done4(Give(s, "nfsdir", "app"), "ok")

\* Mutant: an error of READDIR ends the request without a word.
nfs4_opendir_2_cb_Mutant(s, rep) ==
  IF rep # "ok" THEN {Free(s, "data1")} ELSE Unless(nfs4_find_op(s), nfs4_parse_readdir)

nfs4_opendir_2_cb(s, rep) ==
  Unless(check_nfs4_error(s, rep), LAMBDA t : Unless(nfs4_find_op(t), nfs4_parse_readdir))

nfs4_opendir_cb(s) ==
  DirectoryFh(s, LAMBDA t : Unless(nfs4_find_op(t), nfs4_parse_readdir))

nfs4_opendir_async(s) ==
  LET Compound(t) == Returned(nfs4_lookup_path_async(t, "nfs4_opendir_cb"), Queued, Undo4)
  IN  WithPath4(s, LAMBDA t :
        Blob(t, "nfsdir", LAMBDA u : Blob(u, "blob2", Compound, Undo4), Undo4))

-----------------------------------------------------------------------------
(***************************************************************************)
(* write, lseek and fcntl                                                  *)
(***************************************************************************)

\* nfs4_pwrite_async_internal() on data2.
nfs4_write_append_cb(s, rep) ==
  LET Failed(t) == {Callback(Use(Free(t, "data1"), "data1"), "ENOMEM")}
      Sent(t) == {Free(t, "data1")}
      Write(t) == Malloc(t, "data2", "code",
                         LAMBDA u : Send(u, "nfs4_pwrite_cb", Sent, LAMBDA v : Failed(Free(v, "data2"))),
                         Failed)
  IN  Unless(check_nfs4_error(s, rep), LAMBDA t : Unless(nfs4_find_op(t), Write))

\* The reply to WRITE.
nfs4_pwrite_cb(s, rep) ==
  {Free(Callback(s, Errno(rep)), "data2")}
  \cup (IF rep = "ok" THEN {Free(Callback(t, "EINVAL"), "data2") : t \in Fault(s)} ELSE {})

nfs4_write_async(s) ==
  IF s.in.append
  THEN Malloc(s, "data1", "code", LAMBDA t : Send(t, "nfs4_write_append_cb", Queued, Undo4), Refused)
  ELSE Malloc(s, "data2", "code",
              LAMBDA t : Send(t, "nfs4_pwrite_cb", Queued, LAMBDA u : Refused(Free(u, "data2"))), Refused)

\* blob1, the offset of a SEEK_END, has no function that frees it.
nfs4_lseek_cb(s, rep) ==
  Unless(check_nfs4_error(s, rep), LAMBDA t : Unless(nfs4_find_op(t), LAMBDA u :
    Done4(u, "ok") \cup Done4(u, "EINVAL")))

nfs4_lseek_async(s) ==
  UNION {Queued(Callback(s, e)) : e \in {"ok", "EINVAL"}}
  \cup Malloc(s, "data1", "code",
              LAMBDA t : Malloc(t, "blob1", "nobody",
                                LAMBDA u : Send(u, "nfs4_lseek_cb", Queued, Undo4), Undo4),
              Refused)

nfs4_fcntl_cb(s, rep) ==
  Unless(check_nfs4_error(s, rep), LAMBDA t : Unless(nfs4_find_op(t), LAMBDA u : Done4(u, "ok")))

\* It frees data when the COMPOUND cannot be sent.
nfs4_fcntl_async_internal(s) ==
  Send(s, "nfs4_fcntl_cb", Only, LAMBDA t : Fails(Free(t, "data1")))

\* Attributes that cannot be parsed are reported, and the lock is asked for all the same.
nfs4_fcntl_stat_cb(s, rep) ==
  LET Lock(t) == Returned(nfs4_fcntl_async_internal(Use(t, "data1")), Only, NoMemory4)
  IN  Unless(check_nfs4_error(s, rep), LAMBDA t : Unless(nfs4_find_op(t), LAMBDA u :
        Lock(u) \cup UNION {Then(Done4(v, "EINVAL"), Lock) : v \in Fault(u)}))

\* An unknown command or whence is refused; SEEK_END asks for the size first.
nfs4_fcntl_async(s) ==
  Malloc(s, "data1", "code",
         LAMBDA t : Undo4(t) \cup Returned(nfs4_fcntl_async_internal(t), Queued, Refused)
                    \cup Send(t, "nfs4_fcntl_stat_cb", Queued, Undo4),
         Refused)

-----------------------------------------------------------------------------
(***************************************************************************)
(* All of it                                                               *)
(***************************************************************************)

Irregular4 == {"nfs4_mount", "nfs4_open", "nfs4_creat", "nfs4_truncate", "nfs4_close", "nfs4_link",
               "nfs4_rename", "nfs4_mknod", "nfs4_opendir", "nfs4_write", "nfs4_lseek", "nfs4_fcntl"}

Ops4 == DOMAIN Regular4 \cup Irregular4

\* The flags open looks at; O_TRUNC and O_EXCL together leave O_EXCL.
Input4(op) ==
  LET Bits == CASE op = "nfs4_open" -> {B \in SUBSET {"O_CREAT", "O_EXCL", "O_TRUNC", "O_WRONLY", "O_NOFOLLOW"} :
                                          ~({"O_TRUNC", "O_EXCL"} \subseteq B)}
                [] op = "nfs4_creat" -> {{"O_CREAT", "O_TRUNC"}}
                [] op = "nfs4_pread" -> {{}, {"big"}}
                [] op = "nfs4_mount" -> {{}, {"krb5"}}
                [] OTHER -> {{}}
  IN  [bits : Bits, append : IF op = "nfs4_write" THEN BOOLEAN ELSE {FALSE}]

Call4(s) ==
  CASE s.op \in DOMAIN Regular4 -> IF Regular4[s.op].on = "fh" THEN CallFh4(s) ELSE CallPath4(s)
    [] s.op = "nfs4_mount" -> nfs4_mount_async(s)
    [] s.op \in {"nfs4_open", "nfs4_creat"} -> nfs4_open_async(s)
    [] s.op = "nfs4_truncate" -> nfs4_truncate_async(s)
    [] s.op = "nfs4_close" -> nfs4_close_async(s)
    [] s.op = "nfs4_link" -> nfs4_link_async(s)
    [] s.op = "nfs4_rename" -> nfs4_rename_async(s)
    [] s.op = "nfs4_mknod" -> nfs4_mknod_async(s)
    [] s.op = "nfs4_opendir" -> nfs4_opendir_async(s)
    [] s.op = "nfs4_write" -> nfs4_write_async(s)
    [] s.op = "nfs4_lseek" -> nfs4_lseek_async(s)
    [] s.op = "nfs4_fcntl" -> nfs4_fcntl_async(s)

\* data->continue_cb, run by the lookup with a successful reply.
Continue4(s) ==
  CASE s.next = "nfs4_xxx_cb" -> nfs4_xxx_cb(s, "ok")
    [] s.next = "nfs4_mount_4_cb" -> nfs4_mount_4_cb(s)
    [] s.next = "nfs4_open_cb" -> nfs4_open_cb(s)
    [] s.next = "nfs4_open_readlink_cb" -> nfs4_open_readlink_cb(s)
    [] s.next = "nfs4_link_1_cb" -> nfs4_link_1_cb(s)
    [] s.next = "nfs4_rename_1_cb" -> nfs4_rename_1_cb(s)
    [] s.next \in {"nfs4_link_2_cb", "nfs4_rename_2_cb", "nfs4_mknod_cb"} -> Done4(s, "ok")
    [] s.next = "nfs4_opendir_cb" -> nfs4_opendir_cb(s)

\* The reply rep to an RPC that handler h waits for.
Reply4(s, h, rep) ==
  CASE h = "nfs4_lookup_path_1_cb" -> WhenDue(nfs4_lookup_path_1_cb(s, rep), LAMBDA t, e : Continue4(t))
    [] h = "nfs4_lookup_path_2_cb" -> nfs4_lookup_path_2_cb(s, rep)
    [] h = "nfs4_xxx_cb" -> nfs4_xxx_cb(s, rep)
    [] h \in ConnectHandlers -> ConnectedEnd(ConnectReply(s, h, rep), nfs4_mount_1_cb)
    [] h = "nfs4_mount_2_cb" -> nfs4_mount_2_cb(s, rep)
    [] h = "nfs4_mount_3_cb" -> nfs4_mount_3_cb(s, rep)
    [] h = "nfs4_mount_5_cb" -> nfs4_mount_5_cb(s, rep)
    [] h = "nfs4_open_confirm_cb" -> nfs4_open_confirm_cb(s, rep)
    [] h = "nfs4_open_setattr_cb" -> nfs4_open_setattr_cb(s, rep)
    [] h = "nfs4_truncate_close_cb" -> nfs4_truncate_close_cb(s, rep)
    [] h = "nfs4_close_cb" -> nfs4_close_cb(s, rep)
    [] h = "nfs4_opendir_2_cb" -> nfs4_opendir_2_cb(s, rep)
    [] h = "nfs4_write_append_cb" -> nfs4_write_append_cb(s, rep)
    [] h = "nfs4_pwrite_cb" -> nfs4_pwrite_cb(s, rep)
    [] h = "nfs4_lseek_cb" -> nfs4_lseek_cb(s, rep)
    [] h = "nfs4_fcntl_cb" -> nfs4_fcntl_cb(s, rep)
    [] h = "nfs4_fcntl_stat_cb" -> nfs4_fcntl_stat_cb(s, rep)

=============================================================================
