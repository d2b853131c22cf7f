----------------------------- MODULE NfsRequest -----------------------------
(***************************************************************************)
(* One request of the application (nfs_xxx_async) seen from the library:   *)
(* the memory blocks it allocates, the RPCs it has in flight, what the     *)
(* function returned to its caller, and what the application's callback    *)
(* was given.                                                              *)
(*                                                                         *)
(* A handler of the library is an operator from the request to the set of  *)
(* requests it can leave behind: one for each outcome of the allocations   *)
(* and of the RPCs it tries to queue.  Modules Nfs3Request and Nfs4Request *)
(* write the handlers of nfs_v3.c and nfs_v4.c with the operators below.   *)
(***************************************************************************)
EXTENDS Naturals, Sequences, FiniteSets, Functions

(***************************************************************************)
(* The blocks of memory a request can hold.  data1 and data2 are struct    *)
(* nfs_cb_data (or nfs4_cb_data) of a first and a second path lookup, or   *)
(* of an operation the request calls; path and fh are their saved_path and *)
(* fh.val; cont is continue_data; open is struct open_cb_data; nfsfh and   *)
(* nfsdir are what open and opendir return; lookups and discovery gather   *)
(* the answers of opendir's LOOKUPs and mount's MNTs.  In version 4 name is*)
(* filler.data, blob0 .. blob3 are the blobs of the filler, and mutex is   *)
(* nfs4_open_call_mutex, which struct nfs4_cb_data unlocks when it is      *)
(* freed (MUTEX_HELD); rw is struct rw_data, of a read done in parts.      *)
(***************************************************************************)
Block == {"data1", "data2", "path1", "path2", "fh1", "fh2", "cont", "open",
          "nfsfh", "nfsdir", "mdata", "lookups", "ace", "discovery", "rpcdata",
          "name", "blob0", "blob1", "blob2", "blob3", "mutex", "rw"}

\* Who will free a block: another block, the code running now, the application,
\* or nobody (the last pointer to it is gone).
Owner == Block \cup {"code", "app", "nobody"}

\* What the callback is given: 0 (or a count), or the error.
Result == {"ok", "ENOMEM", "EFAULT", "EINTR", "ELOOP", "ENOENT", "EEXIST", "EACCES",
           "EINVAL", "EIO", "ERANGE", "EROFS", "status"}

\* How a reply of the server can end.  "status" is an NFS error other than the
\* two that some handler singles out.
Reply == {"ok", "status", "NOENT", "NOTSUPP", "ERROR", "CANCEL", "TIMEOUT"}

\* The request before its function is called.  held: the blocks the application passes;
\* budget: the faults of the environment that may happen while it runs; rc: what a function
\* returned to the handler that called it (0 or an error); due: what the callback of a lookup
\* or of a connection is to be told next.
Fresh(op, in, held, budget) ==
  [op |-> op, in |-> in, ret |-> "none", cbs |-> <<>>, calls |-> <<>>,
   heap |-> [b \in held |-> "app"], misuse |-> {}, drops |-> {}, got |-> {},
   level |-> 1, left |-> 0, links |-> 0, next |-> "", conn |-> "", status |-> "ok",
   faults |-> 0, budget |-> budget, how |-> <<>>, tries |-> 0, down |-> "", rv |-> "none",
   out |-> FALSE, rc |-> 0, due |-> ""]

-----------------------------------------------------------------------------
(***************************************************************************)
(* Memory                                                                  *)
(***************************************************************************)

Live(s, b) == b \in DOMAIN s.heap

\* A fault of the environment, if one more is allowed: an allocation fails, an RPC
\* cannot be queued, a reply of the server is malformed.
Fault(s) ==
  IF s.faults < s.budget THEN {[s EXCEPT !.faults = @ + 1]} ELSE {}

\* malloc/calloc/strdup of block b, to be freed by owner o.
Malloc(s, b, o, Ok(_), Fail(_)) ==
  Ok([s EXCEPT !.heap = [c \in DOMAIN @ \cup {b} |-> IF c = b THEN o ELSE @[c]]])
    \cup UNION {Fail(t) : t \in Fault(s)}

\* Everything that freeing b frees: b, what it owns, and what those own.
Tree(s, b) ==
  LET Of(B) == {c \in DOMAIN s.heap : s.heap[c] \in B}
  IN  {b} \cup Of({b}) \cup Of(Of({b}))

\* Freeing, or following a pointer into, a block that is not allocated is misuse.
Free(s, b) ==
  IF Live(s, b)
  THEN [s EXCEPT !.heap = [c \in DOMAIN @ \ Tree(s, b) |-> @[c]]]
  ELSE [s EXCEPT !.misuse = @ \cup {b}]

Use(s, b) ==
  IF Live(s, b) THEN s ELSE [s EXCEPT !.misuse = @ \cup {b}]

\* b changes hands ("steal the filehandle", a result given to the application), if
\* there is such a block.
Give(s, b, o) ==
  IF Live(s, b) THEN [s EXCEPT !.heap[b] = o] ELSE s

-----------------------------------------------------------------------------
(***************************************************************************)
(* Control                                                                 *)
(***************************************************************************)

\* The application's callback runs.
Callback(s, e) == [s EXCEPT !.cbs = Append(@, e)]

\* rpc_nfsN_xxx_task(): the RPC is queued and handler h gets its reply, or it is not
\* queued (NULL).
Send(s, h, Ok(_), Fail(_)) ==
  Ok([s EXCEPT !.calls = Append(@, h)]) \cup UNION {Fail(t) : t \in Fault(s)}

\* nfs_dircache_drop of a directory.
Drop(s, d) == [s EXCEPT !.drops = @ \cup {d}]

\* The function returns to the application.
Return(s, v) == [s EXCEPT !.ret = v]

\* A NULL pointer is followed: the program stops here.
Crash(s) == {[s EXCEPT !.ret = "crashed", !.calls = <<>>]}

\* F on every outcome of S.
Then(S, F(_)) == UNION {IF t.ret = "crashed" THEN {t} ELSE F(t) : t \in S}

\* A function of the library returns -1 to the handler that called it.
Fails(s) == {[s EXCEPT !.rc = 1]}

\* The handler goes on with Ok or with Fail, by what the function it called returned.
Returned(S, Ok(_), Fail(_)) ==
  Then(S, LAMBDA t : IF t.rc = 0 THEN Ok(t) ELSE Fail([t EXCEPT !.rc = 0]))

\* A callback is to be told e, which happens before the handler ends.
Tell(s, e) == {[s EXCEPT !.due = e]}

\* It is told.
WhenDue(S, Cb(_, _)) ==
  Then(S, LAMBDA t : IF t.due = "" THEN {t} ELSE Cb([t EXCEPT !.due = ""], t.due))

\* Nothing of the request will run any more.
Quiet(s) == s.ret # "none" /\ s.calls = <<>>

RequestType(s) ==
  /\ s.ret \in {"none", "queued", "refused", "crashed"}
  /\ s.cbs \in Seq(Result)
  /\ DOMAIN s.heap \subseteq Block
  /\ \A b \in DOMAIN s.heap : s.heap[b] \in Owner
  /\ s.misuse \subseteq Block
  /\ s.level \in {1, 2}
  /\ s.faults \in 0..s.budget
  /\ s.rc = 0 /\ s.due = ""
  /\ s.rv \in Result \cup {"none", "refused"}

=============================================================================
