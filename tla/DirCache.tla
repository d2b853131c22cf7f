------------------------------ MODULE DirCache ------------------------------
(***************************************************************************)
(* The cache of directory listings of an nfs_context (lib/libnfs.c) and    *)
(* those who use it: nfs_opendir() of NFSv3, nfs_closedir(), and the       *)
(* requests that change a directory and drop its listing.  Any number of   *)
(* requests run at the same time, each a chain of RPCs, so everything may  *)
(* change between two steps of one of them.                                *)
(*                                                                         *)
(* The contents of a directory are the number of changes made to it, which *)
(* is also its mtime: the server gives every change a new one.  A listing  *)
(* is the contents each of its parts was read from.                        *)
(***************************************************************************)
EXTENDS Naturals, Sequences, Functions, FiniteSets

CONSTANTS
  Dirs,            \* directories of the server
  Nfsdirs,         \* addresses of struct nfsdir
  MAX_DIR_CACHE,
  MaxParts,        \* bound: READDIRPLUS replies a listing comes in
  MaxChanges       \* bound: [Dirs -> changes of the directory]

ASSUME DirCacheAssumption ==
  /\ MAX_DIR_CACHE \in Nat /\ MaxParts \in Nat \ {0} /\ MaxChanges \in [Dirs -> Nat]
  /\ IsFiniteSet(Nfsdirs)

VARIABLES
  dircache,          \* nfsi->dircache, newest first
  dircache_enabled,
  nfsdir,            \* [Nfsdirs -> the struct, and the opendir that fills it]
  contents,          \* [Dirs -> changes made on the server]
  change,            \* [Dirs -> where a request that changes it is: none, or sent or made
                     \* by a rename or by another request]
  reported           \* [Dirs -> contents when such a request last reported success]

vars == <<dircache, dircache_enabled, nfsdir, contents, change, reported>>
server == <<contents, change, reported>>

NoAttr == 0

\* st: free; lookup, found or reading (the steps of opendir); app (open); cached.
\* asof: what had been reported when the opendir that returned it was called.
Freed == [st |-> "free", dir |-> "", parts |-> <<>>, mtime |-> NoAttr, asof |-> 0, attr |-> NoAttr]

Init ==
  /\ dircache = <<>> /\ dircache_enabled = TRUE
  /\ nfsdir = [h \in Nfsdirs |-> Freed]
  /\ contents = [d \in Dirs |-> 1]
  /\ change = [d \in Dirs |-> <<"none", "">>]
  /\ reported = [d \in Dirs |-> 1]

-----------------------------------------------------------------------------
(***************************************************************************)
(* The cache                                                               *)
(***************************************************************************)
\* The entries of a directory.
Entries(d) == {i \in DOMAIN dircache : nfsdir[dircache[i]].dir = d}

First(S) == CHOOSE i \in S : \A j \in S : i <= j

Last(q) == q[Len(q)]

\* A list without its entry i.
RemoveAt(list, i) == SubSeq(list, 1, i - 1) \o SubSeq(list, i + 1, Len(list))

Without(i) == RemoveAt(dircache, i)

\* Mutant: the listing that is found stays in the list.
nfs_dircache_find_Mutant(d) ==
  IF Entries(d) = {} THEN [found |-> {}, rest |-> dircache]
  ELSE [found |-> {dircache[First(Entries(d))]}, rest |-> dircache]

\* The first listing of d, if there is one, and the list without it.
nfs_dircache_find(d) ==
  IF Entries(d) = {} THEN [found |-> {}, rest |-> dircache]
  ELSE [found |-> {dircache[First(Entries(d))]}, rest |-> Without(First(Entries(d)))]

Free(S) == [h \in Nfsdirs |-> IF h \in S THEN Freed ELSE nfsdir[h]]

nfs_dircache_drop(d) ==
  /\ dircache' = nfs_dircache_find(d).rest
  /\ nfsdir' = Free(nfs_dircache_find(d).found)

\* The entry with index MAX_DIR_CACHE + 1, counted from 0, is freed.
nfs_dircache_add(h) ==
  LET list == <<h>> \o dircache
      last == MAX_DIR_CACHE + 2
      added == [nfsdir EXCEPT ![h].st = "cached", ![h].asof = 0]
  IN  IF Len(list) < last
      THEN dircache' = list /\ nfsdir' = added
      ELSE dircache' = RemoveAt(list, last) /\ nfsdir' = [added EXCEPT ![list[last]] = Freed]

-----------------------------------------------------------------------------
(***************************************************************************)
(* opendir and closedir                                                    *)
(***************************************************************************)
nfs3_opendir_async(h, d) ==
  /\ nfsdir[h].st = "free"
  /\ nfsdir' = [nfsdir EXCEPT ![h] = [Freed EXCEPT !.st = "lookup", !.dir = d,
                                                   !.asof = reported[d]]]
  /\ UNCHANGED <<dircache, dircache_enabled, server>>

\* The server answers the LOOKUP, with or without attributes, or it fails.
Lookup(h) ==
  /\ nfsdir[h].st = "lookup"
  /\ \/ \E a \in {NoAttr, contents[nfsdir[h].dir]} :
          nfsdir' = [nfsdir EXCEPT ![h].st = "found", ![h].attr = a]
     \/ nfsdir' = Free({h})
  /\ UNCHANGED <<dircache, dircache_enabled, server>>

\* Mutant: the mtimes are not compared.
Unchanged_Mutant(attr, cached) == attr # NoAttr

\* The directory has the mtime it had when the listing was read.
Unchanged(attr, cached) == attr # NoAttr /\ attr = nfsdir[cached].mtime

\* A listing in the cache is returned if the directory has not changed, else it is freed
\* and the directory is read; then memory or the queue may fail.
nfs3_opendir_continue_internal(h) ==
  LET find == nfs_dircache_find(nfsdir[h].dir)
      Hit == {c \in find.found : Unchanged(nfsdir[h].attr, c)}
  IN  /\ nfsdir[h].st = "found"
      /\ dircache' = find.rest
      /\ \/ /\ Hit # {}
            /\ nfsdir' = [g \in Nfsdirs |->
                            CASE g \in Hit -> [nfsdir[g] EXCEPT !.st = "app", !.asof = nfsdir[h].asof]
                              [] g = h -> Freed
                              [] OTHER -> nfsdir[g]]
         \/ Hit = {} /\ nfsdir' = [Free(find.found) EXCEPT ![h].st = "reading", ![h].attr = NoAttr]
         \/ Hit = {} /\ nfsdir' = Free(find.found \cup {h})
      /\ UNCHANGED <<dircache_enabled, server>>

\* A READDIRPLUS (or READDIR) is answered: entries are added, and the last answer has the
\* attributes that are kept, if it has any.  Any of them may fail.
nfs3_opendir_cb(h) ==
  LET d == nfsdir[h].dir
      read == [nfsdir EXCEPT ![h].parts = Append(@, contents[d])]
  IN  /\ nfsdir[h].st = "reading"
      /\ \/ Len(nfsdir[h].parts) + 1 < MaxParts /\ nfsdir' = read
         \/ \E a \in {NoAttr, contents[d]} :
              nfsdir' = [read EXCEPT ![h].st = "app", ![h].mtime = a]
         \/ nfsdir' = Free({h})
      /\ UNCHANGED <<dircache, dircache_enabled, server>>

nfs_closedir(h) ==
  /\ nfsdir[h].st = "app"
  /\ IF dircache_enabled THEN nfs_dircache_add(h)
     ELSE nfsdir' = Free({h}) /\ UNCHANGED dircache
  /\ UNCHANGED <<dircache_enabled, server>>

nfs_set_dircache ==
  /\ dircache_enabled' = ~dircache_enabled
  /\ UNCHANGED <<dircache, nfsdir, server>>

-----------------------------------------------------------------------------
(***************************************************************************)
(* Changes                                                                 *)
(***************************************************************************)
None == <<"none", "">>

\* unlink, rmdir, mkdir, mknod, symlink, link or create is sent; rename drops the
\* listing first.
SendChange(d) ==
  /\ change[d] = None /\ contents[d] <= MaxChanges[d]
  /\ \/ change' = [change EXCEPT ![d] = <<"sent", "other">>] /\ UNCHANGED <<dircache, nfsdir>>
     \/ change' = [change EXCEPT ![d] = <<"sent", "rename">>] /\ nfs_dircache_drop(d)
  /\ UNCHANGED <<dircache_enabled, contents, reported>>

\* The server makes a change, for this request or for another client.
ServeChange(d) ==
  /\ contents[d] <= MaxChanges[d]
  /\ contents' = [contents EXCEPT ![d] = @ + 1]
  /\ \/ change[d][1] = "sent" /\ change' = [change EXCEPT ![d][1] = "made"]
     \/ UNCHANGED change
  /\ UNCHANGED <<dircache, dircache_enabled, nfsdir, reported>>

\* The handler of the reply drops the listing, unless it is rename's, and reports.
ChangeReply(d) ==
  /\ change[d][1] = "made"
  /\ change' = [change EXCEPT ![d] = None]
  /\ reported' = [reported EXCEPT ![d] = contents[d]]
  /\ IF change[d][2] = "rename" THEN UNCHANGED <<dircache, nfsdir>> ELSE nfs_dircache_drop(d)
  /\ UNCHANGED <<dircache_enabled, contents>>

\* The request fails: nothing is dropped.
ChangeFails(d) ==
  /\ change[d][1] = "sent"
  /\ change' = [change EXCEPT ![d] = None]
  /\ UNCHANGED <<dircache, dircache_enabled, nfsdir, contents, reported>>

Next ==
  \/ \E h \in Nfsdirs :
       \/ \E d \in Dirs : nfs3_opendir_async(h, d)
       \/ Lookup(h) \/ nfs3_opendir_continue_internal(h) \/ nfs3_opendir_cb(h)
       \/ nfs_closedir(h)
  \/ \E d \in Dirs : SendChange(d) \/ ServeChange(d)
                      \/ ChangeReply(d) \/ ChangeFails(d)
  \/ nfs_set_dircache

Spec == Init /\ [][Next]_vars

-----------------------------------------------------------------------------
(***************************************************************************)
(* Properties                                                              *)
(***************************************************************************)

\* Every struct nfsdir has one owner: it is in the cache, once, or it is the
\* application's, or an opendir's; what is freed is nowhere.  The list is at most one
\* longer than MAX_DIR_CACHE (nfs_dircache_add, nfs_dircache_find).
CacheSound ==
  /\ \A i, j \in DOMAIN dircache : dircache[i] = dircache[j] => i = j
  /\ Range(dircache) = {h \in Nfsdirs : nfsdir[h].st = "cached"}
  /\ Len(dircache) <= MAX_DIR_CACHE + 1

\* A directory that is opened after a change was reported is listed with it, although
\* drops come before or after the change, remove one listing of the directory while there
\* may be several, and a directory opened before the change may be closed, and so cached,
\* after it.  Of a listing read in parts this is true of its last part only: the mtime
\* that is kept is that of the last part (nfs3_opendir_cb).
OwnChangesSeen ==
  \A h \in Nfsdirs : nfsdir[h].st = "app" => Last(nfsdir[h].parts) >= nfsdir[h].asof

=============================================================================
