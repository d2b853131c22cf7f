---------------------------- MODULE NfsRequests ----------------------------
(***************************************************************************)
(* A request of the application on its way through the library: the call   *)
(* of nfs_xxx_async() or of the synchronous nfs_xxx(), the replies to the  *)
(* RPCs it sends, and the return of the synchronous function.              *)
(***************************************************************************)
EXTENDS NfsApi

CONSTANTS
  Ops,               \* the functions of the two versions that may be called
  Waits,             \* the synchronous functions, by what they do, and "" for the others
  MaxFaults,         \* faults of the environment while a request runs
  Faultless          \* the functions that are called without any fault happening

ASSUME RequestsAssumption == MaxFaults \in Nat /\ Ops \subseteq Ops3 \cup Ops4 \cup {"", "done"}

VARIABLE
  r                  \* the request

Calls == {Wait(fn, "") : fn \in Async} \cup Sync

Init ==
  \E c \in Calls : \E op \in {c.fn.v3, c.fn.v4} \cap Ops :
    \E in \in Input(op, c.fn.nofollow), how \in How(c.fn, c.does) :
      /\ c.does \in Waits
      /\ how.default_version => op = "nfs3_mount"
      /\ r = [Fresh(op, in, Held(op), IF op \in Faultless THEN 0 ELSE MaxFaults) EXCEPT !.how = how]

\* nfs_xxx_async() runs.
Call == r.ret = "none" /\ r' \in CallApi(r)

\* EXPORT, UMNT, NULL and the setting up of a connection have no status of their own.
Replies(h) ==
  IF h \in {"nfs3_mount_3_cb", "nfs3_umount_2_cb", "mount_export_5_cb"}
            \cup (ConnectHandlers \ {"rpc_connect_program_3_cb"})
  THEN {"ok", "ERROR", "CANCEL", "TIMEOUT"} ELSE Reply

\* The reply to the i-th RPC in flight reaches its handler.
Answer(i, rep) ==
  LET h == r.calls[i]
      s == [r EXCEPT !.calls = RemoveAt(@, i), !.got = @ \cup {<<h, rep>>}]
  IN  /\ Told(r, i)
      /\ r.down # "" => rep = r.down
      /\ r' \in ReplyApi(s, h, rep)

Waiting == r.how.wait # "" /\ r.rv = "none" /\ r.ret \in {"queued", "refused"}

\* wait_for_nfs_reply(): nfs_service() fails; wait_for_reply(): that, or the timeout.
LeaveLoop ==
  /\ Waiting /\ r.ret = "queued" /\ r.cbs = <<>> /\ r.down = ""
  /\ r' = [r EXCEPT !.down = IF r.how.wait = "exports" THEN "CANCEL" ELSE "ERROR"]

\* Mutant: it returns as soon as the loop has been left.
ReturnSync_Mutant ==
  /\ Waiting
  /\ r.ret = "refused" \/ r.cbs # <<>> \/ (r.down # "" /\ r.how.wait = "plain")
  /\ r' \in SyncReturn(r)

\* The synchronous function returns or tries again; what is left of its context is gone.
ReturnSync ==
  /\ Waiting
  /\ \/ r.ret = "refused" \/ r.cbs # <<>>
     \/ r.down # "" /\ \A i \in DOMAIN r.calls : ~Told(r, i)
  /\ r' \in SyncReturn(IF r.down = "CANCEL" THEN [r EXCEPT !.calls = <<>>] ELSE r)

Progress ==
  \/ Call
  \/ \E i \in DOMAIN r.calls : \E rep \in Replies(r.calls[i]) : Answer(i, rep)
  \/ ReturnSync

Next == Progress \/ LeaveLoop

\* The transport answers or gives up every RPC (module RpcTransport), so no RPC is in
\* flight for ever; that any of them succeeds is not assumed, nor that nfs_service() ever
\* fails.
Spec == Init /\ [][Next]_r /\ WF_r(Progress)

-----------------------------------------------------------------------------
(***************************************************************************)
(* Properties                                                              *)
(***************************************************************************)

\* A request is made of the blocks, handlers and results of NfsRequest.
TypeOK == RequestType(r)

\* The state of a request in module RequestContract.  A context that is destroyed while it
\* is connecting (mount_getexports) is stopped.
Phase ==
  CASE r.ret = "none" /\ r.cbs = <<>> -> "new"
    [] r.ret = "queued" /\ r.cbs = <<>> /\ r.rv = "none" -> "pending"
    [] r.ret = "queued" /\ r.cbs = <<>> /\ r.rv # "none" -> "stopped"
    [] r.ret = "queued" /\ Len(r.cbs) = 1 -> "reported"
    [] r.ret = "refused" /\ r.cbs = <<>> -> "refused"
    [] r.ret = "crashed" -> "stopped"
    [] OTHER -> "broken"

C == INSTANCE RequestContract WITH phase <- Phase

\* The contract of libnfs.h: a request that was queued is reported to the callback exactly
\* once, whatever the server answers and whatever fails on the way, and one that was
\* refused is not reported at all.  It relates the value the function returned, perhaps
\* several RPCs ago, to what the handlers of its replies do.
Contract == C!Spec

\* "<0 : An error occured when trying to queue the command. The callback will not be
\* invoked." (libnfs.h, of every function)
RefusedIsSilent == r.ret = "refused" => r.cbs = <<>>

\* The blocks nobody can free any more.
Leaked(s) == {b \in DOMAIN s.heap : s.heap[b] # "app" /\ s.heap[b] \notin DOMAIN s.heap}

\* When nothing of a request runs any more, all it allocated is freed or is the
\* application's, and nfs4_open_call_mutex is unlocked: on every path through the
\* handlers, after every reply and after every fault.  The paths that are known to leave
\* something: mounting with nested mounts and a given nfsport; in version 4
\* lseek(SEEK_END), whose offset has no function to free it, and open(O_NOFOLLOW) of a
\* symbolic link; a read in parts whose first part is refused; mount_getexports() when it
\* gives up while it is connecting.
NothingLeft ==
  Quiet(r) /\ r.ret # "crashed" =>
    \/ Leaked(r) = {}
    \/ r.op = "nfs3_mount" /\ {"traverse", "nfsport"} \subseteq r.in.bits /\ Leaked(r) = {"discovery"}
    \/ r.op = "nfs4_mount" /\ r.how.wait = "mount" /\ Leaked(r) = {"discovery"}
    \/ r.op = "nfs4_lseek" /\ Leaked(r) = {"blob1"}
    \/ r.op = "nfs4_open" /\ r.cbs = <<"ELOOP">>
    \/ r.ret = "refused" /\ "big" \in r.in.bits /\ Leaked(r) = {"rw"}
    \/ r.down = "CANCEL" /\ r.cbs = <<>>

\* No handler frees a block twice or follows a pointer into a block that was freed, in
\* particular when the callback, a lookup's continuation and the handler that started
\* them each free what they think is theirs.
NoStaleBlock == r.misuse = {}

\* The replies a handler may take for something other than a failure: open(O_CREAT) of a
\* file that does not exist, opendir on a server without READDIRPLUS, the LOOKUP of an
\* entry that has been removed since the directory was read, and, of a mount, the status of
\* the root's GETATTR and what concerns only a nested mount.
Tolerated(s, g) ==
  \/ g[2] = "ok"
  \/ /\ "O_CREAT" \in s.in.bits /\ g[2] = "NOENT"
     /\ g[1] \in {"nfs3_lookup_path_1_cb", "nfs3_lookup_path_2_cb", "nfs3_lookup_path_getattr_cb",
                  "nfs3_open_cb", "nfs3_open_trunc_cb"}
  \/ g = <<"nfs3_opendir_cb", "NOTSUPP">>
  \/ g[1] = "nfs3_opendir_3_cb" /\ g[2] \in {"status", "NOENT", "NOTSUPP"}
  \/ g[1] = "nfs3_mount_7_cb" /\ g[2] \in {"status", "NOENT", "NOTSUPP"}
  \/ g[1] = "nfs3_mount_8_cb"
  \/ g = <<"nfs3_mount_4_cb", "TIMEOUT">>

\* Success is reported only of a request all of whose steps succeeded: an error of any of
\* its RPCs, and any allocation or queueing that failed, reaches the application.
SuccessIsEarned ==
  r.cbs = <<"ok">> /\ r.rv = "none" /\ r.ret # "crashed" => r.faults = 0 /\ \A g \in r.got : Tolerated(r, g)

\* -ELOOP is the answer to too many links, to open(O_NOFOLLOW), and to nothing else, but
\* for truncate, whose length the lookup takes for open flags.
LoopIsALoop ==
  "ELOOP" \in Range(r.cbs) => r.links >= MAX_LINK_COUNT \/ "O_NOFOLLOW" \in r.in.bits

\* The directories whose entries the request has changed, by the lookup that found them.
ChangedDirs(s) ==
  CASE s.op \in {"nfs3_symlink", "nfs3_mknod", "nfs3_unlink", "nfs3_rmdir", "nfs3_mkdir2"} -> {"fh1"}
    [] s.op = "nfs3_link" -> {"fh2"}
    [] s.op = "nfs3_rename" -> {"fh1", "fh2"}
    [] s.op \in {"nfs3_open", "nfs3_creat"} /\ <<"nfs3_create_1_cb", "ok">> \in s.got -> {"fh2"}
    [] OTHER -> {}

\* A request that changed a directory has dropped its cached listing before it reports.
CacheDropped == r.cbs = <<"ok">> => ChangedDirs(r) \subseteq r.drops

\* close: the application loses its file handle exactly when the request is accepted, so a
\* refused close can be tried again.
RefusedCloseKeepsHandle ==
  Held(r.op) # {} /\ Quiet(r) => (r.ret = "refused" <=> Live(r, "nfsfh"))

\* The synchronous functions keep what their callback writes on the stack: when one has
\* returned, or tries again, no handler that could still call it is waiting for a reply,
\* however the loop was left.
NoLateCallback == r.rv # "none" => r.calls = <<>>

\* A synchronous function returns, whatever the server answers: every path through the
\* handlers ends in the callback that lets the loop end.
SyncReturns == r.how.wait # "" ~> (r.rv # "none" \/ r.ret = "crashed")

=============================================================================
