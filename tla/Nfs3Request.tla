---------------------------- MODULE Nfs3Request ----------------------------
(***************************************************************************)
(* The requests of NFS version 3 (lib/nfs_v3.c): the path lookup they      *)
(* share, the continuation each runs when the lookup is done, and the      *)
(* handlers of the replies, with every allocation and every RPC able to    *)
(* fail.  A path is the number of components still to be looked up; file   *)
(* handles, attributes and names are left out.                             *)
(***************************************************************************)
EXTENDS RpcConnect

CONSTANTS
  Depth,             \* the longest path, in components
  MAX_LINK_COUNT,    \* symbolic links a lookup follows (40 in the code)
  MaxParts           \* pages of a directory, and short writes in a row

ASSUME LookupAssumption == Depth \in Nat /\ MAX_LINK_COUNT \in Nat /\ MaxParts \in Nat

D == <<"data1", "data2">>
P == <<"path1", "path2">>
H == <<"fh1", "fh2">>

Only(s) == {s}

Queued(s) == {Return(s, "queued")}
Refused(s) == {Return(s, "refused")}

\* The callback the application gave: data->cb of every request but open and close.
UserCb(s, e) == {Callback(s, e)}

\* Mutant: the status goes to the application as it is.
Errno_Mutant(rep) == rep

\* check_nfs3_error() and nfsstat3_to_errno() of a reply.
Errno(rep) ==
  CASE rep = "ERROR" -> "EFAULT"
    [] rep \in {"CANCEL", "TIMEOUT"} -> "EINTR"
    [] rep = "NOENT" -> "ENOENT"
    [] rep = "NOTSUPP" -> "EINVAL"
    [] rep \in {"ok", "status"} -> rep

\* data->cb(e, ...); free_nfs_cb_data(data)
Finish(s, n, e, Cb(_, _)) ==
  Then(Cb(Use(s, D[n]), e), LAMBDA t : {Free(t, D[n])})

\* The same for a request whose callback is the application's.
Done(s, n, e) == Finish(s, n, e, UserCb)

-----------------------------------------------------------------------------
(***************************************************************************)
(* Path lookup.  n tells the first lookup of the request from the second.  *)
(***************************************************************************)

\* How lookup n goes on: with data->continue_cb (Cont), or, when it ends, with data->cb (Cb).
Looked(S, n, Cb(_, _), Cont(_)) ==
  WhenDue(S, LAMBDA t, e : IF e = "continue" THEN Cont(t) ELSE Finish(t, n, e, Cb))

nfs3_lookup_path_async_internal(s, n, link) ==
  LET NoMemory(t) == Tell(t, "ENOMEM")
      first == n = 1
  IN  IF link /\ first /\ "O_NOFOLLOW" \in s.in.bits
      THEN Tell(s, "ELOOP")
      ELSE IF link /\ (~(first /\ s.in.no_follow) \/ s.left > 0)
      THEN IF s.links >= MAX_LINK_COUNT
           THEN Tell(s, "ELOOP")
           ELSE Send([s EXCEPT !.links = @ + 1], "nfs3_lookup_path_2_cb", Only, NoMemory)
      ELSE IF s.left = 0
      THEN Malloc(s, H[n], D[n], LAMBDA t : Tell(t, "continue"), NoMemory)
      ELSE Send([s EXCEPT !.left = @ - 1], "nfs3_lookup_path_1_cb", Only, NoMemory)

\* The reply to LOOKUP: any object, a symbolic link or not.
nfs3_lookup_path_1_cb(s, n, rep) ==
  IF rep # "ok"
  THEN Tell(s, Errno(rep))
  ELSE UNION {nfs3_lookup_path_async_internal(s, n, link) : link \in BOOLEAN}

\* The reply to READLINK: the target lies outside the export or is no valid path, or
\* the lookup starts again at the root with the new path.
nfs3_lookup_path_2_cb(s, n, rep) ==
  IF rep # "ok"
  THEN Tell(s, Errno(rep))
  ELSE Tell(s, "ENOENT")
       \cup UNION {Tell(t, "ENOMEM") : t \in Fault(s)}
       \cup UNION {nfs3_lookup_path_async_internal([s EXCEPT !.left = k], n, FALSE)
                   : k \in 0..Depth}

\* The reply to the GETATTR of the export's root.
nfs3_lookup_path_getattr_cb(s, n, rep) ==
  IF rep # "ok"
  THEN Tell(s, Errno(rep))
  ELSE nfs3_lookup_path_async_internal(s, n, FALSE)

\* cont is continue_data: "" (none), a block freed with free_continue_data, or "open",
\* which is given without a function to free it.
nfs3_lookuppath_async(s, n, cont) ==
  LET Undo(t) == Fails(Free(t, D[n]))
      Start(t) ==
        Undo(t)                                   \* nfs_normalize_path() refuses the path
        \cup Send(t, "nfs3_lookup_path_getattr_cb", Only, Undo)
        \cup UNION {nfs3_lookup_path_async_internal([t EXCEPT !.left = k], n, FALSE) : k \in 0..Depth}
      WithData(t) ==
        Malloc([(IF cont \in {"cont", "nfsdir"} THEN Give(t, cont, D[n]) ELSE t)
                  EXCEPT !.level = n, !.left = 0, !.links = 0],
               P[n], D[n], Start, Undo)
      NoData(t) ==
        CASE cont = "" -> Fails(t)
          [] cont = "open" -> Crash(t)
          [] OTHER -> Fails(Free(t, cont))
  IN  Malloc(s, D[n], "code", WithData, NoData)

\* A caller of nfs3_lookuppath_async().
LookupPath(s, n, cont, Cb(_, _), Cont(_), Ok(_), Fail(_)) ==
  Returned(Looked(nfs3_lookuppath_async(s, n, cont), n, Cb, Cont), Ok, Fail)

-----------------------------------------------------------------------------
(***************************************************************************)
(* The regular requests.  A request on a path looks it up, sends one RPC   *)
(* and hands its result to the application; a request on an open file      *)
(* sends the RPC at once.  What tells one from another:                    *)
(*   allocs  blocks allocated before the lookup: none, one (continue_data) *)
(*           or two (what continue_data points to)                         *)
(*   leaks   a failure of the second leaves the first behind               *)
(*   refuses the arguments may be found wrong once the path is known       *)
(*   denies  a successful reply may still mean an error (-EACCES)          *)
(*   drops   success drops the directory from the directory cache          *)
(*   loud    an RPC that cannot be queued is reported to the callback      *)
(***************************************************************************)

Plain == [on |-> "path", allocs |-> 0, leaks |-> FALSE, refuses |-> FALSE,
          denies |-> FALSE, drops |-> FALSE, loud |-> FALSE]
OnFh == [Plain EXCEPT !.on = "fh"]

nfs3_symlink == [Plain EXCEPT !.allocs = 2, !.drops = TRUE]
nfs3_access2 == Plain
nfs3_access == [Plain EXCEPT !.denies = TRUE]
nfs3_utimes == [Plain EXCEPT !.allocs = 1, !.drops = TRUE]
nfs3_utime == [Plain EXCEPT !.allocs = 1, !.drops = TRUE]
nfs3_chown == [Plain EXCEPT !.allocs = 1]
nfs3_chmod == [Plain EXCEPT !.drops = TRUE]
nfs3_readlink == Plain
nfs3_statvfs == Plain
nfs3_statvfs64 == Plain
nfs3_mknod == [Plain EXCEPT !.allocs = 2, !.leaks = TRUE, !.refuses = TRUE, !.drops = TRUE]
nfs3_unlink == [Plain EXCEPT !.allocs = 1, !.drops = TRUE]
nfs3_rmdir == [Plain EXCEPT !.allocs = 1, !.drops = TRUE]
nfs3_mkdir2 == [Plain EXCEPT !.allocs = 1, !.drops = TRUE]
nfs3_stat == Plain
nfs3_stat64 == Plain

nfs3_fchown == [OnFh EXCEPT !.allocs = 2, !.loud = TRUE]
nfs3_fchmod == [OnFh EXCEPT !.allocs = 1, !.loud = TRUE, !.drops = TRUE]
nfs3_ftruncate == [OnFh EXCEPT !.loud = TRUE]
nfs3_fsync == [OnFh EXCEPT !.loud = TRUE]
nfs3_getacl == [OnFh EXCEPT !.loud = TRUE]
nfs3_fstat == [OnFh EXCEPT !.loud = TRUE]
nfs3_fstat64 == [OnFh EXCEPT !.loud = TRUE]
nfs3_pread == OnFh
nfs3_preadv == OnFh

Regular3 ==
  [nfs3_symlink |-> nfs3_symlink, nfs3_access2 |-> nfs3_access2, nfs3_access |-> nfs3_access,
   nfs3_utimes |-> nfs3_utimes, nfs3_utime |-> nfs3_utime, nfs3_chown |-> nfs3_chown,
   nfs3_chmod |-> nfs3_chmod, nfs3_readlink |-> nfs3_readlink, nfs3_statvfs |-> nfs3_statvfs,
   nfs3_statvfs64 |-> nfs3_statvfs64, nfs3_mknod |-> nfs3_mknod, nfs3_unlink |-> nfs3_unlink,
   nfs3_rmdir |-> nfs3_rmdir, nfs3_mkdir2 |-> nfs3_mkdir2, nfs3_stat |-> nfs3_stat,
   nfs3_stat64 |-> nfs3_stat64, nfs3_fchown |-> nfs3_fchown, nfs3_fchmod |-> nfs3_fchmod,
   nfs3_ftruncate |-> nfs3_ftruncate, nfs3_fsync |-> nfs3_fsync, nfs3_getacl |-> nfs3_getacl,
   nfs3_fstat |-> nfs3_fstat, nfs3_fstat64 |-> nfs3_fstat64, nfs3_pread |-> nfs3_pread,
   nfs3_preadv |-> nfs3_preadv]

\* nfs3_xxx_continue_internal(): the RPC of a request on a path.
RegularContinue(s) ==
  (IF Regular3[s.op].refuses THEN Done(s, 1, "EINVAL") ELSE {})
  \cup Send(s, "nfs3_xxx_cb", Only, LAMBDA t : Done(t, 1, "ENOMEM"))

\* nfs3_xxx_async() of a request on a path.
CallPath(s) ==
  LET p == Regular3[s.op]
      Lookup(t) == LookupPath(t, 1, IF p.allocs = 0 THEN "" ELSE "cont",
                              UserCb, RegularContinue, Queued, Refused)
      Second(t) == Lookup(t) \cup
                   UNION {Refused(IF p.leaks THEN u ELSE Free(u, "cont")) : u \in Fault(t)}
      First(t) == IF p.allocs = 1 THEN Lookup(t) ELSE Second(t)
  IN  IF p.allocs = 0 THEN Lookup(s) ELSE Malloc(s, "cont", "code", First, Refused)

\* nfs3_xxx_async() of a request on an open file: struct nfs_cb_data, in fchmod and
\* fchown a copy of the file handle, and the RPC.
CallFh(s) ==
  LET p == Regular3[s.op]
      Quietly(t) == Refused(Free(t, "data1"))
      NotSent(t) == IF p.loud THEN Then(Done(t, 1, "ENOMEM"), Refused) ELSE Quietly(t)
      Rpc(t) == Send(t, "nfs3_xxx_cb", Queued, NotSent)
      WithData(t) ==
        IF p.allocs = 0 THEN Rpc(t) ELSE Malloc(Give(t, "cont", "data1"), "fh1", "data1", Rpc, Quietly)
      NoData(t) == Refused(IF p.allocs = 2 THEN Free(t, "cont") ELSE t)
      Data(t) == Malloc(t, "data1", "code", WithData, NoData)
  IN  IF p.allocs = 2 THEN Malloc(s, "cont", "code", Data, Refused) ELSE Data(s)

\* The reply of GETACL is copied for the application, default entries last.
nfs3_getacl_ok(s) ==
  LET NoMemory(t) == Done(t, 1, "ENOMEM")
  IN  Malloc(s, "ace", "nobody",
             LAMBDA t : Done(Give(t, "ace", "app"), 1, "ok") \cup UNION {NoMemory(u) : u \in Fault(t)},
             NoMemory)

\* nfs3_xxx_cb(): the reply of a regular request.
nfs3_xxx_cb(s, rep) ==
  LET p == Regular3[s.op]
      Success(t) == Done(IF p.drops THEN Drop(t, "fh1") ELSE t, 1, "ok")
  IN  IF rep # "ok" THEN Done(s, 1, Errno(rep))
      ELSE IF s.op = "nfs3_getacl" THEN nfs3_getacl_ok(s)
      ELSE Success(s) \cup (IF p.denies THEN Done(s, 1, "EACCES") ELSE {})

-----------------------------------------------------------------------------
(***************************************************************************)
(* link and rename: two lookups, the second started by the continuation of *)
(* the first, which gives it its continue_data                             *)
(***************************************************************************)

\* "steal the filehandle" of lookup n, for continue_data.
Steal(s, n) == Give(s, H[n], "cont")

nfs3_link_continue_2_internal(s) ==
  Send(Steal(s, 2), "nfs3_link_cb", Only, LAMBDA t : Done(t, 2, "ENOMEM"))

\* Mutant: the listing of the new name's directory stays in the cache.
nfs3_link_cb_Mutant(s, rep) == Done(s, 2, Errno(rep))

nfs3_link_cb(s, rep) ==
  IF rep # "ok" THEN Done(s, 2, Errno(rep)) ELSE Done(Drop(s, "fh2"), 2, "ok")

nfs3_rename_continue_2_internal(s) ==
  Send(Steal(Drop(s, "fh2"), 2), "nfs3_rename_cb", Only, LAMBDA t : Done(t, 2, "ENOMEM"))

nfs3_rename_cb(s, rep) == Done(s, 2, Errno(rep))

Continue2(s) ==
  IF s.op = "nfs3_link" THEN nfs3_link_continue_2_internal(s)
  ELSE nfs3_rename_continue_2_internal(s)

SecondLookup(s) ==
  LookupPath(s, 2, "cont", UserCb, Continue2,
             LAMBDA t : {Free(t, "data1")},
             LAMBDA t : Done(t, 1, "ENOMEM"))

nfs3_link_continue_1_internal(s) == SecondLookup(Steal(s, 1))

nfs3_rename_continue_1_internal(s) == SecondLookup(Steal(Drop(s, "fh1"), 1))

\* nfs3_link_async() and nfs3_rename_async() copy the names, then look up the first path.
CallTwoPaths(s, Continue1(_)) ==
  LET Copy(t) ==
        UNION {Refused(Free(u, "cont")) : u \in Fault(t)}
        \cup LookupPath(t, 1, "cont", UserCb, Continue1, Queued, Refused)
  IN  Malloc(s, "cont", "code", Copy, Refused)

nfs3_link_async(s) == CallTwoPaths(s, nfs3_link_continue_1_internal)

nfs3_rename_async(s) == CallTwoPaths(s, nfs3_rename_continue_1_internal)

-----------------------------------------------------------------------------
(***************************************************************************)
(* truncate and chdir: what their lookups continue with                    *)
(***************************************************************************)

\* nfs_ftruncate_async() with the request's own callback, on data2: it reports an RPC
\* it could not queue, and returns -1, for which truncate reports again.
nfs3_truncate_continue_internal(s) ==
  LET Failed(t) == Done(t, 1, "ENOMEM")
      NotSent(t) == Then(Done(t, 2, "ENOMEM"), Failed)
      Rpc(t) == Send(t, "nfs3_ftruncate_cb", LAMBDA u : {Free(u, "data1")}, NotSent)
  IN  Malloc(s, "data2", "code", Rpc, Failed)

nfs3_ftruncate_cb(s, rep) == Done(s, 2, Errno(rep))

nfs3_truncate_async(s) ==
  LookupPath(s, 1, "", UserCb, nfs3_truncate_continue_internal, Queued, Refused)

\* The looked-up path becomes nfs->nfsi->cwd.
nfs3_chdir_continue_internal(s) == Done(Give(s, "path1", "app"), 1, "ok")

nfs3_chdir_async(s) ==
  LookupPath(s, 1, "", UserCb, nfs3_chdir_continue_internal, Queued, Refused)

-----------------------------------------------------------------------------
(***************************************************************************)
(* open: a lookup of the path, ACCESS, SETATTR for O_TRUNC; with O_CREAT,  *)
(* when the path does not exist, a lookup of its directory and CREATE      *)
(***************************************************************************)

Flag(s, f) == f \in s.in.bits

\* cb_data->cb(e, ...); free_open_cb_data(cb_data)
OpenResult(s, e) == {Free(Callback(Use(s, "open"), e), "open")}

\* The error, already a negative errno, goes through nfsstat3_to_errno(), which knows
\* none of those.
nfs3_open_create_cb(s, e) == OpenResult(s, IF e = "ok" THEN "ok" ELSE "ERANGE")

\* The file handle goes to the application.
NewNfsfh(s, n, Cb(_, _), Ok(_)) ==
  Malloc(s, "nfsfh", "code", Ok, LAMBDA t : Finish(t, n, "ENOMEM", Cb))

nfs3_create_1_cb(s, rep) ==
  LET Created(t) == Finish(Drop(Give(t, "nfsfh", "app"), "fh2"), 2, "ok", nfs3_open_create_cb)
      NoFh(t) == Then(Finish(t, 2, "ENOMEM", nfs3_open_create_cb), LAMBDA u : {Free(u, "nfsfh")})
  IN  IF rep # "ok"
      THEN Finish(s, 2, Errno(rep), nfs3_open_create_cb)
      ELSE NewNfsfh(s, 2, nfs3_open_create_cb,
                    LAMBDA t : Created(t) \cup UNION {NoFh(u) : u \in Fault(t)})

\* An RPC that is not queued: data is freed as if it were a struct open_cb_data, which
\* frees saved_path and leaves fh.val.
nfs3_create_continue_internal(s) ==
  LET NotSent(t) ==
        Then(nfs3_open_create_cb(t, "ENOMEM"), LAMBDA u : {Free(Give(u, "fh2", "nobody"), "data2")})
  IN  Send(s, "nfs3_create_1_cb", Only, NotSent)

nfs3_initial_open_cb(s, e) ==
  IF e = "EEXIST" /\ Flag(s, "O_CREAT") /\ Flag(s, "O_EXCL") THEN OpenResult(s, "EEXIST")
  ELSE IF e = "ENOENT" /\ Flag(s, "O_CREAT")
  THEN UNION {OpenResult(t, "ENOMEM") : t \in Fault(s)}
       \cup LookupPath(s, 2, "open", nfs3_open_create_cb, nfs3_create_continue_internal,
                       Only, LAMBDA t : OpenResult(t, "ENOMEM"))
  ELSE OpenResult(s, IF e = "ok" THEN "ok" ELSE "ERANGE")

\* The end of nfs3_open_cb() and nfs3_open_trunc_cb().
Opened(s) ==
  NewNfsfh(s, 1, nfs3_initial_open_cb,
           LAMBDA t : Finish(Give(Give(t, "fh1", "nfsfh"), "nfsfh", "app"), 1, "ok",
                             nfs3_initial_open_cb))

\* Mutant: the reply to the truncating SETATTR is not looked at.
nfs3_open_trunc_cb_Mutant(s, rep) == Opened(s)

nfs3_open_trunc_cb(s, rep) ==
  IF rep # "ok" THEN Finish(s, 1, Errno(rep), nfs3_initial_open_cb) ELSE Opened(s)

nfs3_open_cb(s, rep) ==
  LET Failed(t, e) == Finish(t, 1, e, nfs3_initial_open_cb)
  IN  IF rep # "ok" THEN Failed(s, Errno(rep))
      ELSE Failed(s, "EACCES") \cup
           (IF Flag(s, "O_TRUNC") /\ Flag(s, "O_WRONLY")
            THEN Send(s, "nfs3_open_trunc_cb", Only, LAMBDA t : Failed(t, "ENOMEM"))
            ELSE Opened(s))

nfs3_open_continue_internal(s) ==
  LET Failed(t, e) == Finish(t, 1, e, nfs3_initial_open_cb)
  IN  IF Flag(s, "O_CREAT") /\ Flag(s, "O_EXCL") THEN Failed(s, "EEXIST")
      ELSE Send(s, "nfs3_open_cb", Only, LAMBDA t : Failed(t, "ENOMEM"))

nfs3_open_async(s) ==
  LET Undo(t) == Refused(Free(t, "open"))
      Lookup(t) == LookupPath(t, 1, "", nfs3_initial_open_cb, nfs3_open_continue_internal,
                              Queued, Undo)
  IN  Malloc(s, "open", "code", LAMBDA t : Lookup(t) \cup UNION {Undo(u) : u \in Fault(t)}, Refused)

-----------------------------------------------------------------------------
(***************************************************************************)
(* opendir: READDIRPLUS until the end, or READDIR when the server has none;*)
(* then a LOOKUP for each entry that came without attributes               *)
(***************************************************************************)

\* data->cb(e); nfs_free_nfsdir(nfsdir); data->continue_data = NULL; free_nfs_cb_data(data)
OpendirFails(s, e) == {Free(Free(Callback(s, e), "nfsdir"), "data1")}

\* The list goes to the application; data->continue_data = NULL.
OpendirDone(s) == {Free(Callback(Give(s, "nfsdir", "app"), "ok"), "data1")}

\* k LOOKUPs are tried.  One that cannot be queued is skipped and its block (mdata) is
\* lost; the result of malloc is not looked at.
lookup_missing_attributes(s, k) ==
  LET Lost(t) == {[t EXCEPT !.heap = [b \in DOMAIN @ \cup {"mdata"} |-> IF b = "mdata" THEN "nobody" ELSE @[b]]]}
      Lookup(t) == Send(t, "nfs3_opendir_3_cb", Only, Lost)
      S == CASE k = 0 -> {s}
             [] k = 1 -> Malloc(s, "lookups", "code", Lookup, Crash)
             [] k = 2 -> Malloc(s, "lookups", "code", LAMBDA t : Then(Lookup(t), Lookup), Crash)
  IN  Then(S, LAMBDA t : IF t.calls = <<>> THEN OpendirDone(t) ELSE {t})

\* The answers to the LOOKUPs: the last one reports.  A timeout counts as a cancel.
nfs3_opendir_3_cb(s, rep) ==
  LET t == [s EXCEPT !.status = IF rep \in {"ERROR", "CANCEL", "TIMEOUT"} THEN "failed" ELSE @]
      last == s.calls = <<>>
  IN  IF ~last THEN {t}
      ELSE Then(IF t.status = "failed"
                THEN {Free(Callback(t, "ENOMEM"), "nfsdir")}
                ELSE {Callback(Give(t, "nfsdir", "app"), "ok")},
                LAMBDA u : {Free(Free(u, "lookups"), "data1")})

\* A page of entries: an entry that cannot be allocated, the next page, or the end.
Page(s, handler) ==
  UNION {OpendirFails(t, "ENOMEM") : t \in Fault(s)}
  \cup (IF s.left < MaxParts
        THEN Send([s EXCEPT !.left = @ + 1], handler, Only, LAMBDA t : OpendirFails(t, "ENOMEM"))
        ELSE {})
  \cup UNION {lookup_missing_attributes(s, k) : k \in 0..2}

nfs3_opendir_2_cb(s, rep) ==
  IF rep # "ok" THEN OpendirFails(s, Errno(rep)) ELSE Page(s, "nfs3_opendir_2_cb")

nfs3_opendir_cb(s, rep) ==
  IF rep = "NOTSUPP"
  THEN Send(s, "nfs3_opendir_2_cb", Only, LAMBDA t : OpendirFails(t, "ENOMEM"))
  ELSE IF rep # "ok" THEN OpendirFails(s, Errno(rep)) ELSE Page(s, "nfs3_opendir_cb")

\* A cached list with the same mtime is the answer.  Otherwise the handle is copied
\* into nfsdir; free_nfs_cb_data(), which frees nfsdir with free(), leaves the copy.
nfs3_opendir_continue_internal(s) ==
  LET Hit == Done(s, 1, "ok")
      NotSent(t) == Done(Give(t, "fh2", "nobody"), 1, "ENOMEM")
      Rpc(t) == Send(Give(t, "nfsdir", "code"), "nfs3_opendir_cb", Only,
                     LAMBDA u : NotSent(Give(u, "nfsdir", "data1")))
  IN  IF s.in.cached THEN Hit
      ELSE Malloc(s, "fh2", "nfsdir", Rpc, LAMBDA t : Done(t, 1, "ENOMEM"))

nfs3_opendir_async(s) ==
  Malloc(s, "nfsdir", "code",
         LAMBDA t : LookupPath(t, 1, "nfsdir", UserCb, nfs3_opendir_continue_internal,
                               Queued, Refused),
         Refused)

-----------------------------------------------------------------------------
(***************************************************************************)
(* write, pwrite, lseek and close                                          *)
(***************************************************************************)

\* One WRITE of at most writemax bytes (data n).
nfs3_pwrite_async_internal(s, n) ==
  LET Undo(t) == Fails(Free(t, D[n]))
      Rpc(t) == Send([t EXCEPT !.level = n], "nfs3_pwrite_mcb", Only, LAMBDA u : Undo(Free(u, "mdata")))
  IN  Malloc(s, D[n], "code", LAMBDA t : Malloc(t, "mdata", "code", Rpc, Undo), Fails)

\* Mutant: mdata is not freed.
nfs3_pwrite_mcb_Mutant(s, rep) == Done(s, s.level, Errno(rep))

\* The reply: an error, a short write (reissued for the rest, or nothing written at
\* all), or all of it.
nfs3_pwrite_mcb(s, rep) ==
  LET End(t, e) == Done(Free(t, "mdata"), t.level, e)
  IN  IF rep # "ok" THEN End(s, Errno(rep))
      ELSE End(s, "ok") \cup End(s, "EFAULT")
           \cup (IF s.left < MaxParts
                 THEN Send([s EXCEPT !.left = @ + 1], "nfs3_pwrite_mcb", Only, LAMBDA t : End(t, "ENOMEM"))
                 ELSE {})

nfs3_pwrite_async(s) == Returned(nfs3_pwrite_async_internal(s, 1), Queued, Refused)

\* O_APPEND: the size of the file, then the write at that offset.
nfs3_write_append_cb(s, rep) ==
  IF rep # "ok" THEN Done(s, 1, Errno(rep))
  ELSE Returned(nfs3_pwrite_async_internal(s, 2),
                LAMBDA t : {Free(t, "data1")}, LAMBDA t : Done(t, 1, "ENOMEM"))

nfs3_write_async(s) ==
  IF s.in.append
  THEN Malloc(s, "data1", "code",
              LAMBDA t : Send(t, "nfs3_write_append_cb", Queued, LAMBDA u : Refused(Free(u, "data1"))),
              Refused)
  ELSE nfs3_pwrite_async(s)

\* SEEK_SET and SEEK_CUR answer at once; SEEK_END asks for the size.
nfs3_lseek_async(s) ==
  UNION {Queued(Callback(s, e)) : e \in {"ok", "EINVAL"}}
  \cup Malloc(s, "data1", "code",
              LAMBDA t : Send(t, "nfs3_lseek_1_cb", Queued, LAMBDA u : Refused(Free(u, "data1"))),
              Refused)

\* Mutant: an error is not reported.
nfs3_lseek_1_cb_Mutant(s, rep) == IF rep # "ok" THEN {Free(s, "data1")} ELSE Done(s, 1, "ok")

nfs3_lseek_1_cb(s, rep) ==
  IF rep # "ok" THEN Done(s, 1, Errno(rep)) ELSE Done(s, 1, "ok") \cup Done(s, 1, "EINVAL")

\* close: the application's nfsfh is freed, after a COMMIT when it is dirty.
nfs3_close_cb(s, e) == {Free(Callback(Free(s, "nfsfh"), e), "data1")}

\* nfs3_fsync_async() with nfs3_close_cb as its callback, on data2.
CloseFsync(s) ==
  Malloc(s, "data2", "code",
         LAMBDA t : Send(t, "nfs3_fsync_cb", Queued,
                         LAMBDA u : Then(Finish(u, 2, "ENOMEM", nfs3_close_cb), Refused)),
         Refused)

nfs3_fsync_cb(s, rep) == Finish(s, 2, Errno(rep), nfs3_close_cb)

nfs3_close_async(s) ==
  IF ~s.in.dirty THEN Queued(Callback(Free(s, "nfsfh"), "ok"))
  ELSE Malloc(s, "data1", "code", CloseFsync, Refused)

-----------------------------------------------------------------------------
(***************************************************************************)
(* mount: MNT of the export and, to traverse mounts, of those below it, on *)
(* a connection to the mount daemon; FSINFO and GETATTR on one to nfsd.    *)
(* umount: UMNT.  s.left is the number of nested mounts found.  in.bits    *)
(* are the settings of the context: "traverse" (auto_traverse_mounts),     *)
(* "nfsport" and "mountport" (the port of nfsd, of the mount daemon is     *)
(* given), "krb5" (sec=krb5), "small" (rsize, wsize or the directory       *)
(* buffer is set below NFSMAXDATA2).                                       *)
(***************************************************************************)

\* GETATTR of a nested mount: whatever the answer, the last one ends the mount.
nfs3_mount_8_cb(s, rep) == IF s.calls # <<>> THEN {s} ELSE Done(s, 1, "ok")

\* The status of the root's GETATTR is not looked at.  A nested mount whose GETATTR cannot
\* be sent is left alone.
nfs3_mount_7_cb(s, rep) ==
  LET Getattr(t) == Send(t, "nfs3_mount_8_cb", Only, Only)
      S == CASE s.left = 0 -> {s} [] s.left = 1 -> Getattr(s) [] s.left = 2 -> Then(Getattr(s), Getattr)
  IN  IF rep \in {"ERROR", "CANCEL", "TIMEOUT"} THEN Done(s, 1, Errno(rep))
      ELSE Then(S, LAMBDA t : IF t.calls = <<>> THEN Done(t, 1, "ok") ELSE {t})

nfs3_mount_6_cb(s, rep) ==
  IF rep # "ok" THEN Done(s, 1, Errno(rep))
  ELSE IF "small" \in s.in.bits THEN Done(s, 1, "EINVAL")
  ELSE Send(s, "nfs3_mount_7_cb", Only, LAMBDA t : Done(t, 1, "ENOMEM"))

nfs3_mount_5_cb(s, rep) ==
  IF rep # "ok" THEN Done(s, 1, Errno(rep))
  ELSE Send(s, "nfs3_mount_6_cb", Only, LAMBDA t : Done(t, 1, "ENOMEM"))

\* rpc_disconnect() and the connection to nfsd.
ConnectNfsd(s, Ok(_), Fail(_)) ==
  Returned(IF "nfsport" \in s.in.bits THEN rpc_connect_port_async(s, "nfs3_mount_5_cb")
           ELSE rpc_connect_program_async(s, "nfs3_mount_5_cb"), Ok, Fail)

\* The connection to the mount daemon.
ConnectMountd(s, conn, Ok(_), Fail(_)) ==
  Returned(IF "mountport" \in s.in.bits THEN rpc_connect_port_async(s, conn)
           ELSE rpc_connect_program_async(s, conn), Ok, Fail)

\* MNT of a nested export.  The last answer goes on to nfsd, or fails the mount if one of
\* them was an error (a timeout is not); with nfsport the counter is not freed.
nfs3_mount_4_cb(s, rep) ==
  LET status == IF s.status = "CANCEL" \/ rep = "CANCEL" THEN "CANCEL"
                ELSE IF rep \in {"ERROR", "status", "NOENT", "NOTSUPP"} THEN rep ELSE s.status
      t == [s EXCEPT !.status = status, !.left = IF rep = "ok" THEN @ + 1 ELSE @]
      End(u, e) == Then(Done(u, 1, e), LAMBDA v : {Free(v, "discovery")})
      Going(u) == {IF "nfsport" \in u.in.bits THEN Give(u, "discovery", "nobody") ELSE Free(u, "discovery")}
  IN  IF t.calls # <<>> THEN {t}
      ELSE IF status # "ok" THEN End(t, Errno(status))
      ELSE ConnectNfsd(t, Going, LAMBDA u : End(u, "ENOMEM"))

\* The exports below ours, at most two of them.  An allocation or an MNT that fails is
\* tried again, for as long as it fails.
nfs3_mount_3_cb(s, rep) ==
  LET Mnt(t, k) == {[t EXCEPT !.calls = @ \o [i \in 1..k |-> "nfs3_mount_4_cb"],
                              !.heap = [b \in DOMAIN @ \cup {"discovery"} |->
                                          IF b = "discovery" THEN "code" ELSE @[b]]]}
  IN  IF rep \in {"ERROR", "CANCEL", "TIMEOUT"} THEN Done(s, 1, Errno(rep))
      ELSE Mnt(s, 1) \cup Mnt(s, 2) \cup ConnectNfsd(s, Only, LAMBDA t : Done(t, 1, "ENOMEM"))

\* The root's file handle is the context's.
nfs3_mount_2_cb(s, rep) ==
  LET Failed(t) == Done(t, 1, "ENOMEM")
      Root(t) == IF "traverse" \in t.in.bits THEN Send(t, "nfs3_mount_3_cb", Only, Failed)
                 ELSE ConnectNfsd(t, Only, Failed)
  IN  IF rep # "ok" THEN Done(s, 1, Errno(rep)) ELSE Malloc(s, "fh1", "app", Root, Failed)

nfs3_mount_1_cb(s, rep) ==
  IF rep # "ok" THEN Done(s, 1, Errno(rep))
  ELSE Send(s, "nfs3_mount_2_cb", Only, LAMBDA t : Done(t, 1, "ENOMEM"))

\* The names of the server and of the export are the context's.
nfs3_mount_async(s) ==
  UNION {Refused(t) : t \in Fault(s)}
  \cup Malloc(s, "data1", "code",
              LAMBDA t : ConnectMountd(t, "nfs3_mount_1_cb", Queued, LAMBDA u : Refused(Free(u, "data1"))),
              Refused)

nfs3_umount_2_cb(s, rep) == Done(s, 1, Errno(rep))

nfs3_umount_1_cb(s, rep) ==
  IF rep # "ok" THEN Done(s, 1, Errno(rep))
  ELSE Send(s, "nfs3_umount_2_cb", Only, LAMBDA t : Done(t, 1, "ENOMEM"))

nfs3_umount_async(s) ==
  Malloc(s, "data1", "code",
         LAMBDA t : ConnectMountd(t, "nfs3_umount_1_cb", Queued, LAMBDA u : Refused(Free(u, "data1"))),
         Refused)

-----------------------------------------------------------------------------
(***************************************************************************)
(* All of it                                                               *)
(***************************************************************************)

Irregular3 == {"nfs3_link", "nfs3_rename", "nfs3_truncate", "nfs3_chdir", "nfs3_open", "nfs3_creat",
               "nfs3_opendir", "nfs3_pwrite", "nfs3_write", "nfs3_lseek", "nfs3_close", "nfs3_mount", "nfs3_umount",
   "mount_getexports"}

Ops3 == DOMAIN Regular3 \cup Irregular3

\* What the arguments of a call can be.  continue_int, whose O_NOFOLLOW bit the lookup
\* looks at, is a set of open flags for open and the length for truncate.
Input3(op) ==
  LET Bits == CASE op = "nfs3_open" -> SUBSET {"O_CREAT", "O_EXCL", "O_TRUNC", "O_WRONLY", "O_NOFOLLOW"}
                [] op = "nfs3_creat" -> {{"O_CREAT", "O_TRUNC", "O_WRONLY"}}
                [] op = "nfs3_truncate" -> {{}, {"O_NOFOLLOW"}}
                [] op = "nfs3_mount" -> SUBSET {"traverse", "nfsport", "mountport", "krb5", "small"}
                [] op = "nfs3_pread" -> {{}, {"big"}}
                [] op \in {"nfs3_umount", "mount_getexports"} -> {{}, {"mountport"}}
                [] OTHER -> {{}}
  IN  [no_follow : IF op = "nfs3_readlink" THEN {TRUE}
                   ELSE IF op \in {"nfs3_utimes", "nfs3_chown", "nfs3_chmod", "nfs3_stat64"}
                   THEN BOOLEAN ELSE {FALSE},
       bits : Bits,
       cached : IF op = "nfs3_opendir" THEN BOOLEAN ELSE {FALSE},
       append : IF op = "nfs3_write" THEN BOOLEAN ELSE {FALSE},
       dirty : IF op = "nfs3_close" THEN BOOLEAN ELSE {FALSE}]

Call3(s) ==
  CASE s.op \in DOMAIN Regular3 -> IF Regular3[s.op].on = "path" THEN CallPath(s) ELSE CallFh(s)
    [] s.op = "nfs3_link" -> nfs3_link_async(s)
    [] s.op = "nfs3_rename" -> nfs3_rename_async(s)
    [] s.op = "nfs3_truncate" -> nfs3_truncate_async(s)
    [] s.op = "nfs3_chdir" -> nfs3_chdir_async(s)
    [] s.op \in {"nfs3_open", "nfs3_creat"} -> nfs3_open_async(s)
    [] s.op = "nfs3_opendir" -> nfs3_opendir_async(s)
    [] s.op = "nfs3_pwrite" -> nfs3_pwrite_async(s)
    [] s.op = "nfs3_write" -> nfs3_write_async(s)
    [] s.op = "nfs3_lseek" -> nfs3_lseek_async(s)
    [] s.op = "nfs3_close" -> nfs3_close_async(s)
    [] s.op = "nfs3_mount" -> nfs3_mount_async(s)
    [] s.op = "nfs3_umount" -> nfs3_umount_async(s)
    [] s.op = "mount_getexports" -> mount_getexports_async(s)

\* data->cb and data->continue_cb of the lookup a LOOKUP, READLINK or GETATTR belongs to.
LookupCb(s, e) ==
  IF s.op \in {"nfs3_open", "nfs3_creat"}
  THEN IF s.level = 1 THEN nfs3_initial_open_cb(s, e) ELSE nfs3_open_create_cb(s, e)
  ELSE UserCb(s, e)

LookupContinue(s) ==
  CASE s.op \in DOMAIN Regular3 -> RegularContinue(s)
    [] s.op \in {"nfs3_link", "nfs3_rename"} /\ s.level = 2 -> Continue2(s)
    [] s.op = "nfs3_link" /\ s.level = 1 -> nfs3_link_continue_1_internal(s)
    [] s.op = "nfs3_rename" /\ s.level = 1 -> nfs3_rename_continue_1_internal(s)
    [] s.op = "nfs3_truncate" -> nfs3_truncate_continue_internal(s)
    [] s.op = "nfs3_chdir" -> nfs3_chdir_continue_internal(s)
    [] s.op \in {"nfs3_open", "nfs3_creat"} /\ s.level = 1 -> nfs3_open_continue_internal(s)
    [] s.op \in {"nfs3_open", "nfs3_creat"} /\ s.level = 2 -> nfs3_create_continue_internal(s)
    [] s.op = "nfs3_opendir" -> nfs3_opendir_continue_internal(s)

\* A connection was set up, or not.
Connected3(s, rep) ==
  CASE s.conn = "nfs3_mount_1_cb" -> nfs3_mount_1_cb(s, rep)
    [] s.conn = "nfs3_mount_5_cb" -> nfs3_mount_5_cb(s, rep)
    [] s.conn = "nfs3_umount_1_cb" -> nfs3_umount_1_cb(s, rep)
    [] s.conn = "mount_export_4_cb" -> mount_export_4_cb(s, rep)

\* The reply rep to an RPC that handler h waits for.
Reply3(s, h, rep) ==
  LET Went(S) == Looked(S, s.level, LookupCb, LookupContinue) IN
  CASE h = "nfs3_lookup_path_1_cb" -> Went(nfs3_lookup_path_1_cb(s, s.level, rep))
    [] h = "nfs3_lookup_path_2_cb" -> Went(nfs3_lookup_path_2_cb(s, s.level, rep))
    [] h = "nfs3_lookup_path_getattr_cb" -> Went(nfs3_lookup_path_getattr_cb(s, s.level, rep))
    [] h = "nfs3_xxx_cb" -> nfs3_xxx_cb(s, rep)
    [] h = "nfs3_link_cb" -> nfs3_link_cb(s, rep)
    [] h = "nfs3_rename_cb" -> nfs3_rename_cb(s, rep)
    [] h = "nfs3_ftruncate_cb" -> nfs3_ftruncate_cb(s, rep)
    [] h = "nfs3_open_cb" -> nfs3_open_cb(s, rep)
    [] h = "nfs3_open_trunc_cb" -> nfs3_open_trunc_cb(s, rep)
    [] h = "nfs3_create_1_cb" -> nfs3_create_1_cb(s, rep)
    [] h = "nfs3_opendir_cb" -> nfs3_opendir_cb(s, rep)
    [] h = "nfs3_opendir_2_cb" -> nfs3_opendir_2_cb(s, rep)
    [] h = "nfs3_opendir_3_cb" -> nfs3_opendir_3_cb(s, rep)
    [] h = "nfs3_pwrite_mcb" -> nfs3_pwrite_mcb(s, rep)
    [] h = "nfs3_write_append_cb" -> nfs3_write_append_cb(s, rep)
    [] h = "nfs3_lseek_1_cb" -> nfs3_lseek_1_cb(s, rep)
    [] h = "nfs3_fsync_cb" -> nfs3_fsync_cb(s, rep)
    [] h = "nfs3_mount_2_cb" -> nfs3_mount_2_cb(s, rep)
    [] h = "nfs3_mount_3_cb" -> nfs3_mount_3_cb(s, rep)
    [] h = "nfs3_mount_4_cb" -> nfs3_mount_4_cb(s, rep)
    [] h = "nfs3_mount_6_cb" -> nfs3_mount_6_cb(s, rep)
    [] h = "nfs3_mount_7_cb" -> nfs3_mount_7_cb(s, rep)
    [] h = "nfs3_mount_8_cb" -> nfs3_mount_8_cb(s, rep)
    [] h = "mount_export_5_cb" -> mount_export_5_cb(s, rep)
    [] h \in ConnectHandlers -> ConnectedEnd(ConnectReply(s, h, rep), Connected3)
    [] h = "nfs3_umount_2_cb" -> nfs3_umount_2_cb(s, rep)

=============================================================================
