--------------------------- MODULE DirCacheProofs ---------------------------
(***************************************************************************)
(* Theorems about DirCache, for any number of directories, listings,       *)
(* changes and parts and any size of the cache.                            *)
(***************************************************************************)
EXTENDS DirCache, TLAPS, WellFoundedInduction

\* A leaf that names no prover is tried with these in turn: the short limits first, then
\* the longer ones, which only a busy machine needs.
USE SMT, Zenon, SMTT(60), ZenonT(60), SMTT(180)

-----------------------------------------------------------------------------
(* The list.                                                               *)

\* Any set of numbers has a least one.
LEMMA LeastElement ==
  ASSUME NEW S \in SUBSET Nat, S # {}
  PROVE  \E x \in S : \A y \in S : x <= y
<1> DEFINE R == OpToRel(<, Nat)
<1>1. PICK x \in S : \A y \in S : ~(<<y, x>> \in R)
  BY WFMin, NatLessThanWellFounded
<1>2. \A a, b \in Nat : a < b => <<a, b>> \in R
  BY DEF OpToRel
<1> HIDE DEF R
<1>3. \A y \in S : x \in Nat /\ y \in Nat /\ ~(y < x)
  BY <1>1, <1>2, Zenon, ZenonT(60)
<1>4. \A y \in S : x <= y
  BY <1>3
<1>. QED  BY <1>4

\* nfs_dircache_find stops at a listing of the directory.
LEMMA FirstEntry ==
  ASSUME dircache \in Seq(Nfsdirs), NEW d, Entries(d) # {}
  PROVE  First(Entries(d)) \in Entries(d)
<1>1. Entries(d) \in SUBSET Nat
  BY DEF Entries
<1>2. \E x \in Entries(d) : \A y \in Entries(d) : x <= y
  BY <1>1, LeastElement, Zenon, ZenonT(60)
<1>. QED  BY <1>2, Zenon, ZenonT(60) DEF First

\* The list without its i-th entry.
LEMMA RemoveEntry ==
  ASSUME NEW T, NEW q \in Seq(T), NEW i \in DOMAIN q,
         \A a, b \in DOMAIN q : q[a] = q[b] => a = b
  PROVE  LET r == RemoveAt(q, i)
         IN  /\ r \in Seq(T)
             /\ Len(r) = Len(q) - 1
             /\ \A a, b \in DOMAIN r : r[a] = r[b] => a = b
             /\ Range(r) = Range(q) \ {q[i]}
<1> DEFINE r == RemoveAt(q, i)
           n == Len(q)
<1>1. n \in Nat /\ i \in 1..n /\ DOMAIN q = 1..n /\ \A a \in 1..n : q[a] \in T
  OBVIOUS
<1> DEFINE u == SubSeq(q, 1, i - 1)
           v == SubSeq(q, i + 1, n)
<1>2. u \in Seq(T) /\ Len(u) = i - 1 /\ \A a \in 1..(i - 1) : u[a] = q[a]
  BY <1>1
<1>3. v \in Seq(T) /\ Len(v) = n - i /\ \A a \in 1..(n - i) : v[a] = q[a + i]
  BY <1>1
<1>4. /\ r \in Seq(T) /\ Len(r) = n - 1 /\ DOMAIN r = 1..(n - 1)
      /\ \A a \in 1..(n - 1) : r[a] = IF a < i THEN q[a] ELSE q[a + 1]
  <2>1. r = u \o v
    BY DEF RemoveAt
  <2> HIDE DEF r, u, v
  <2>2. /\ r \in Seq(T) /\ Len(r) = Len(u) + Len(v)
        /\ \A a \in 1..(Len(u) + Len(v)) :
              r[a] = IF a <= Len(u) THEN u[a] ELSE v[a - Len(u)]
    <3>1. u \in Seq(T) /\ v \in Seq(T)
      BY <1>2, <1>3
    <3>. QED  BY <2>1, <3>1
  <2>3. Len(r) = n - 1 /\ DOMAIN r = 1..(n - 1)
    BY <1>1, <1>2, <1>3, <2>2
  <2>4. ASSUME NEW a \in 1..(n - 1) PROVE r[a] = IF a < i THEN q[a] ELSE q[a + 1]
    <3>1. r[a] = IF a <= i - 1 THEN u[a] ELSE v[a - (i - 1)]
      BY <1>1, <1>2, <1>3, <2>2
    <3>2. CASE a < i
      BY <1>1, <1>2, <3>1, <3>2
    <3>3. CASE ~(a < i)
      <4>1. a - (i - 1) \in 1..(n - i) /\ (a - (i - 1)) + i = a + 1 /\ ~(a <= i - 1)
        BY <1>1, <3>3
      <4>. QED  BY <1>3, <3>1, <3>3, <4>1
    <3>. QED  BY <3>2, <3>3
  <2>. QED  BY <2>2, <2>3, <2>4, Zenon, ZenonT(60)
<1> HIDE DEF u, v
<1> HIDE DEF r, n
<1>5. ASSUME NEW a \in DOMAIN r, NEW b \in DOMAIN r, r[a] = r[b]
      PROVE  a = b
  <2> DEFINE A == IF a < i THEN a ELSE a + 1
             B == IF b < i THEN b ELSE b + 1
  <2>1. A \in 1..n /\ B \in 1..n /\ r[a] = q[A] /\ r[b] = q[B]
    BY <1>1, <1>4
  <2>2. A = B
    <3> HIDE DEF A, B
    <3>. QED  BY <1>1, <1>5, <2>1, Zenon, ZenonT(60)
  <2>. QED  BY <1>1, <1>4, <2>2
<1>6. ASSUME NEW x \in Range(r) PROVE x \in Range(q) \ {q[i]}
  <2>1. PICK a \in 1..(n - 1) : x = r[a]
    BY <1>4 DEF Range
  <2> DEFINE A == IF a < i THEN a ELSE a + 1
  <2>2. A \in 1..n /\ A # i /\ x = q[A]
    BY <1>1, <1>4, <2>1
  <2> HIDE DEF A
  <2>. QED  BY <1>1, <2>2 DEF Range
<1>7. ASSUME NEW x \in Range(q) \ {q[i]} PROVE x \in Range(r)
  <2>1. PICK a \in 1..n : x = q[a]
    BY <1>1 DEF Range
  <2> DEFINE A == IF a < i THEN a ELSE a - 1
  <2>2. A \in 1..(n - 1) /\ r[A] = q[a]
    BY <1>1, <1>4, <1>7, <2>1
  <2> HIDE DEF A
  <2>. QED  BY <1>4, <2>1, <2>2, Zenon, ZenonT(60) DEF Range
<1>8. Range(r) = Range(q) \ {q[i]}
  BY <1>6, <1>7
<1>. QED  BY <1>4, <1>5, <1>8 DEF r, n

\* The list with a new entry in front.
LEMMA ConsEntry ==
  ASSUME NEW T, NEW q \in Seq(T), NEW h \in T \ Range(q),
         \A a, b \in DOMAIN q : q[a] = q[b] => a = b
  PROVE  LET r == <<h>> \o q
         IN  /\ r \in Seq(T)
             /\ Len(r) = Len(q) + 1
             /\ \A a, b \in DOMAIN r : r[a] = r[b] => a = b
             /\ Range(r) = Range(q) \cup {h}
<1> DEFINE r == <<h>> \o q
           n == Len(q)
<1>1. n \in Nat /\ DOMAIN q = 1..n /\ \A a \in 1..n : q[a] \in T /\ q[a] # h
  BY DEF Range
<1>2. /\ r \in Seq(T) /\ Len(r) = n + 1 /\ DOMAIN r = 1..(n + 1) /\ r[1] = h
      /\ \A a \in 2..(n + 1) : r[a] = q[a - 1]
  BY <1>1
<1> HIDE DEF r, n
<1>3. \A a \in 1..n : r[a + 1] = q[a] /\ a + 1 \in 1..(n + 1)
  BY <1>1, <1>2
<1>4. ASSUME NEW a \in DOMAIN r, NEW b \in DOMAIN r, r[a] = r[b]
      PROVE  a = b
  <2>1. ASSUME NEW c \in 1..(n + 1), c # 1 PROVE c - 1 \in 1..n /\ r[c] = q[c - 1]
    BY <1>1, <1>2, <2>1
  <2>2. CASE a = 1 \/ b = 1
    BY <1>1, <1>2, <1>4, <2>1, <2>2
  <2>3. CASE a # 1 /\ b # 1
    <3>1. /\ a - 1 \in DOMAIN q /\ b - 1 \in DOMAIN q
          /\ r[a] = q[a - 1] /\ r[b] = q[b - 1]
      BY <1>1, <1>2, <2>1, <2>3
    <3>2. a - 1 = b - 1
      BY <1>4, <3>1, Zenon, ZenonT(60)
    <3>. QED  BY <1>1, <1>2, <3>2
  <2>. QED  BY <2>2, <2>3
<1>5. Range(r) = Range(q) \cup {h}
  <2>1. ASSUME NEW a \in 1..(n + 1) PROVE r[a] = h \/ \E b \in 1..n : r[a] = q[b]
    BY <1>1, <1>2
  <2>2. 1 \in 1..(n + 1)
    BY <1>1
  <2>3. ASSUME NEW x \in Range(r) PROVE x \in Range(q) \cup {h}
    <3>1. PICK a \in 1..(n + 1) : x = r[a]
      BY <1>2, Zenon, ZenonT(60) DEF Range
    <3>2. CASE r[a] = h
      BY <3>1, <3>2
    <3>3. CASE \E b \in 1..n : r[a] = q[b]
      BY <1>1, <3>1, <3>3, Zenon, ZenonT(60) DEF Range
    <3>. QED  BY <2>1, <3>2, <3>3, Zenon, ZenonT(60)
  <2>4. h \in Range(r)
    BY <1>2, <2>2, Zenon, ZenonT(60) DEF Range
  <2>5. ASSUME NEW b \in 1..n PROVE q[b] \in Range(r)
    BY <1>2, <1>3, Zenon, ZenonT(60) DEF Range
  <2>6. Range(q) \subseteq Range(r)
    BY <1>1, <2>5, Zenon, ZenonT(60) DEF Range
  <2>. QED  BY <2>3, <2>4, <2>6
<1>. QED  BY <1>2, <1>4, <1>5 DEF r, n

-----------------------------------------------------------------------------
(* The inductive invariant.  OwnChangesSeen is not inductive: a listing    *)
(* taken from the cache shows what was reported because its mtime is that  *)
(* of its last part (ListingOK), and the attributes of the LOOKUP it is    *)
(* compared with are no older than what was reported when opendir was      *)
(* called.                                                                 *)

Struct == [st : {"free", "lookup", "found", "reading", "app", "cached"},
           dir : Dirs \cup {""}, parts : Seq(Nat), mtime : Nat, asof : Nat, attr : Nat]

TypeInv ==
  /\ dircache \in Seq(Nfsdirs)
  /\ nfsdir \in [Nfsdirs -> Struct]
  /\ contents \in [Dirs -> Nat]
  /\ reported \in [Dirs -> Nat]

\* What was reported has been made.
ReportedOK == \A d \in Dirs : reported[d] <= contents[d]

\* What the fields of a struct nfsdir say at each step of its life; rep is what has been
\* reported.
ListingOK(n, rep) ==
  /\ n.st # "free" => n.dir \in Dirs
  /\ n.st \in {"lookup", "found", "reading"} => n.asof <= rep[n.dir]
  /\ n.st = "found" => n.attr = NoAttr \/ n.attr >= n.asof
  /\ n.st \in {"app", "cached"} => n.parts # <<>> /\ n.mtime \in {NoAttr, Last(n.parts)}
  /\ n.st = "app" => Last(n.parts) >= n.asof

IInv ==
  /\ TypeInv /\ CacheSound /\ ReportedOK
  /\ \A h \in Nfsdirs : ListingOK(nfsdir[h], reported)

\* A struct that is freed has nothing to keep.
LEMMA FreedOK == Freed \in Struct /\ Freed.st = "free" /\ \A rep : ListingOK(Freed, rep)
BY DEF Freed, Struct, ListingOK, NoAttr

\* The invariant holds of an empty cache.
LEMMA InitIInv == Init => IInv
<1> SUFFICES ASSUME Init PROVE IInv
  OBVIOUS
<1>1. /\ dircache = <<>> /\ nfsdir = [h \in Nfsdirs |-> Freed]
      /\ contents = [d \in Dirs |-> 1] /\ reported = [d \in Dirs |-> 1]
  BY Zenon, ZenonT(60) DEF Init
<1>2. TypeInv /\ ReportedOK
  BY <1>1, FreedOK DEF TypeInv, ReportedOK
<1>3. \A h \in Nfsdirs : nfsdir[h].st = "free" /\ ListingOK(nfsdir[h], reported)
  BY <1>1, FreedOK
<1>4. Range(dircache) = {} /\ Len(dircache) = 0 /\ DOMAIN dircache = {}
  BY <1>1 DEF Range
<1>5. CacheSound
  BY <1>3, <1>4, DirCacheAssumption DEF CacheSound
<1>. QED  BY <1>2, <1>3, <1>5 DEF IInv

\* nfs_dircache_find takes at most one listing of the directory off the list.
LEMMA FindEffect ==
  ASSUME IInv, NEW d
  PROVE  LET r == nfs_dircache_find(d)
         IN  /\ r.rest \in Seq(Nfsdirs)
             /\ \A a, b \in DOMAIN r.rest : r.rest[a] = r.rest[b] => a = b
             /\ r.found \subseteq Range(dircache)
             /\ \A g, h \in r.found : g = h
             /\ Range(r.rest) = Range(dircache) \ r.found
             /\ Len(r.rest) <= MAX_DIR_CACHE + 1
<1> DEFINE r == nfs_dircache_find(d)
<1>1. /\ dircache \in Seq(Nfsdirs) /\ Len(dircache) \in Nat /\ Len(dircache) <= MAX_DIR_CACHE + 1
      /\ \A a, b \in DOMAIN dircache : dircache[a] = dircache[b] => a = b
  BY DEF IInv, TypeInv, CacheSound
<1>2. CASE Entries(d) = {}
  <2>1. r.rest = dircache /\ r.found = {}
    BY <1>2 DEF nfs_dircache_find
  <2>. QED  BY <1>1, <2>1
<1>3. CASE Entries(d) # {}
  <2> DEFINE i == First(Entries(d))
  <2>1. r.rest = RemoveAt(dircache, i) /\ r.found = {dircache[i]}
    BY <1>3 DEF nfs_dircache_find, Without
  <2>2. i \in DOMAIN dircache
    BY <1>1, <1>3, FirstEntry, Zenon, ZenonT(60) DEF Entries
  <2> HIDE DEF i, r
  <2> DEFINE t == RemoveAt(dircache, i)
  <2>3. /\ t \in Seq(Nfsdirs)
        /\ Len(t) = Len(dircache) - 1
        /\ \A a, b \in DOMAIN t : t[a] = t[b] => a = b
        /\ Range(t) = Range(dircache) \ {dircache[i]}
    BY <1>1, <2>2, RemoveEntry, Zenon, ZenonT(60)
  <2> HIDE DEF t
  <2>4. dircache[i] \in Range(dircache)
    BY <2>2 DEF Range
  <2>5. Len(t) <= MAX_DIR_CACHE + 1
    BY <1>1, <2>3, DirCacheAssumption
  <2>6. r.rest = t /\ r.found = {dircache[i]}
    BY <2>1 DEF t
  <2>7. /\ r.found \subseteq Range(dircache)
        /\ \A g, h \in r.found : g = h
        /\ Range(t) = Range(dircache) \ r.found
    BY <2>3, <2>4, <2>6
  <2>. QED  BY <2>3, <2>5, <2>6, <2>7, Zenon, ZenonT(60) DEF r
<1>. QED  BY <1>2, <1>3

\* The list stays sound if what is taken off it is no longer marked as cached.
LEMMA TakenOff ==
  ASSUME IInv, NEW d, dircache' = nfs_dircache_find(d).rest,
         \A h \in Nfsdirs : nfsdir'[h].st = "cached"
            <=> h \notin nfs_dircache_find(d).found /\ nfsdir[h].st = "cached"
  PROVE  dircache' \in Seq(Nfsdirs) /\ CacheSound'
<1> DEFINE found == nfs_dircache_find(d).found
<1>1. /\ dircache' \in Seq(Nfsdirs)
      /\ \A a, b \in DOMAIN dircache' : dircache'[a] = dircache'[b] => a = b
      /\ Range(dircache') = Range(dircache) \ found
      /\ Len(dircache') <= MAX_DIR_CACHE + 1
  BY FindEffect, Zenon, ZenonT(60)
<1> HIDE DEF found
<1>2. Range(dircache) = {h \in Nfsdirs : nfsdir[h].st = "cached"}
  BY DEF IInv, CacheSound
<1>3. Range(dircache') = {h \in Nfsdirs : nfsdir'[h].st = "cached"}
  BY <1>1, <1>2 DEF found
<1>. QED  BY <1>1, <1>3, Zenon, ZenonT(60) DEF CacheSound

\* nfs_dircache_drop frees what it takes off the list, and nothing else.
LEMMA DropEffect ==
  ASSUME IInv, NEW d, nfs_dircache_drop(d)
  PROVE  /\ dircache' \in Seq(Nfsdirs) /\ nfsdir' \in [Nfsdirs -> Struct]
         /\ CacheSound'
         /\ \A h \in Nfsdirs : nfsdir'[h] \in {nfsdir[h], Freed}
<1> DEFINE found == nfs_dircache_find(d).found
<1>1. dircache' = nfs_dircache_find(d).rest
  BY DEF nfs_dircache_drop
<1>2. nfsdir' = [h \in Nfsdirs |-> IF h \in found THEN Freed ELSE nfsdir[h]]
  BY DEF nfs_dircache_drop, Free
<1>3. nfsdir \in [Nfsdirs -> Struct]
  BY DEF IInv, TypeInv
<1> HIDE DEF found
<1>4. /\ nfsdir' \in [Nfsdirs -> Struct]
      /\ \A h \in Nfsdirs : nfsdir'[h] \in {nfsdir[h], Freed}
      /\ \A h \in Nfsdirs : nfsdir'[h].st = "cached" <=> h \notin found /\ nfsdir[h].st = "cached"
  BY <1>2, <1>3, FreedOK
<1>5. dircache' \in Seq(Nfsdirs) /\ CacheSound'
  BY <1>1, <1>4, TakenOff, Zenon, ZenonT(60) DEF found
<1>. QED  BY <1>4, <1>5

\* A step of an opendir changes its own struct nfsdir, which is not in the cache.
LEMMA OneStruct ==
  ASSUME IInv, NEW h \in Nfsdirs, NEW n \in Struct, ListingOK(n, reported),
         nfsdir[h].st # "cached", n.st # "cached",
         nfsdir' = [nfsdir EXCEPT ![h] = n],
         UNCHANGED <<dircache, contents, reported>>
  PROVE  IInv'
<1>1. nfsdir \in [Nfsdirs -> Struct] /\ TypeInv /\ ReportedOK /\ CacheSound
  BY DEF IInv, TypeInv
<1>2. /\ nfsdir' \in [Nfsdirs -> Struct]
      /\ \A g \in Nfsdirs : nfsdir'[g] = IF g = h THEN n ELSE nfsdir[g]
  BY <1>1
<1>3. {g \in Nfsdirs : nfsdir'[g].st = "cached"} = {g \in Nfsdirs : nfsdir[g].st = "cached"}
  BY <1>2
<1>4. \A g \in Nfsdirs : ListingOK(nfsdir'[g], reported')
  BY <1>2, Zenon, ZenonT(60) DEF IInv
<1>5. TypeInv' /\ ReportedOK'
  BY <1>1, <1>2 DEF TypeInv, ReportedOK
<1>6. CacheSound'
  BY <1>1, <1>3, Zenon, ZenonT(60) DEF CacheSound
<1>. QED  BY <1>4, <1>5, <1>6 DEF IInv

\* opendir starts with a LOOKUP and knows what has been reported.
LEMMA OpendirStep == ASSUME IInv, NEW h \in Nfsdirs, NEW d \in Dirs, nfs3_opendir_async(h, d)
                     PROVE  IInv'
<1> DEFINE n == [Freed EXCEPT !.st = "lookup", !.dir = d, !.asof = reported[d]]
<1>1. nfsdir' = [nfsdir EXCEPT ![h] = n] /\ nfsdir[h].st # "cached"
      /\ UNCHANGED <<dircache, contents, reported>>
  BY DEF nfs3_opendir_async, server
<1>2. reported[d] \in Nat
  BY DEF IInv, TypeInv
<1>3. n \in Struct
  BY <1>2, FreedOK DEF Struct
<1>4. n.st = "lookup" /\ n.dir = d /\ n.asof = reported[d]
  BY FreedOK DEF Struct
<1> HIDE DEF n
<1>5. ListingOK(n, reported) /\ n.st # "cached"
  BY <1>2, <1>4 DEF ListingOK
<1>. QED  BY <1>1, <1>3, <1>5, OneStruct, Zenon, ZenonT(60)

\* Freeing a struct that an opendir holds.
LEMMA GiveUp == ASSUME IInv, NEW h \in Nfsdirs, nfsdir[h].st # "cached", nfsdir' = Free({h}),
                       UNCHANGED <<dircache, contents, reported>>
                PROVE  IInv'
<1>1. nfsdir' = [nfsdir EXCEPT ![h] = Freed]
  BY Zenon, ZenonT(60) DEF Free, IInv, TypeInv
<1>2. Freed.st # "cached"
  BY FreedOK
<1>. QED  BY <1>1, <1>2, FreedOK, OneStruct, Zenon, ZenonT(60)

\* The attributes of the LOOKUP are no older than what was reported before.
LEMMA LookupStep == ASSUME IInv, NEW h \in Nfsdirs, Lookup(h) PROVE IInv'
<1>1. UNCHANGED <<dircache, contents, reported>> /\ nfsdir[h].st = "lookup"
  BY DEF Lookup, server
<1>2. CASE nfsdir' = Free({h})
  BY <1>1, <1>2, GiveUp
<1>3. CASE \E a \in {NoAttr, contents[nfsdir[h].dir]} :
             nfsdir' = [nfsdir EXCEPT ![h].st = "found", ![h].attr = a]
  <2>1. PICK a \in {NoAttr, contents[nfsdir[h].dir]} :
               nfsdir' = [nfsdir EXCEPT ![h].st = "found", ![h].attr = a]
    BY <1>3, Zenon, ZenonT(60)
  <2> DEFINE n == [nfsdir[h] EXCEPT !.st = "found", !.attr = a]
  <2>2. nfsdir' = [nfsdir EXCEPT ![h] = n]
    BY <2>1, Zenon, ZenonT(60) DEF IInv, TypeInv
  <2>3. /\ nfsdir[h] \in Struct /\ ListingOK(nfsdir[h], reported)
        /\ nfsdir[h].dir \in Dirs
    BY <1>1 DEF IInv, TypeInv, ListingOK
  <2>4. /\ contents[nfsdir[h].dir] \in Nat /\ reported[nfsdir[h].dir] \in Nat
        /\ reported[nfsdir[h].dir] <= contents[nfsdir[h].dir]
        /\ nfsdir[h].asof \in Nat /\ nfsdir[h].asof <= reported[nfsdir[h].dir]
    BY <1>1, <2>3 DEF IInv, TypeInv, ReportedOK, ListingOK, Struct
  <2>5. /\ n \in Struct /\ n.st = "found" /\ n.attr = a
        /\ n.dir = nfsdir[h].dir /\ n.asof = nfsdir[h].asof
    <3>1. a \in Nat
      BY <2>4 DEF NoAttr
    <3>2. n \in Struct
      BY <2>3, <3>1 DEF Struct
    <3>3. n.st = "found" /\ n.attr = a
      BY <2>3 DEF Struct
    <3>4. n.dir = nfsdir[h].dir /\ n.asof = nfsdir[h].asof
      BY <2>3 DEF Struct
    <3>. QED  BY <3>2, <3>3, <3>4
  <2> HIDE DEF n
  <2>6. ListingOK(n, reported) /\ n.st # "cached"
    BY <2>3, <2>4, <2>5 DEF ListingOK, NoAttr
  <2>. QED  BY <1>1, <2>2, <2>5, <2>6, OneStruct, Zenon, ZenonT(60)
<1>. QED  BY <1>2, <1>3 DEF Lookup

\* A listing of the cache is returned only if its last part shows what had been reported.
LEMMA ContinueStep == ASSUME IInv, NEW h \in Nfsdirs, nfs3_opendir_continue_internal(h) PROVE IInv'
<1> DEFINE d == nfsdir[h].dir
           found == nfs_dircache_find(d).found
           Hit == {c \in found : Unchanged(nfsdir[h].attr, c)}
<1>1. /\ nfsdir \in [Nfsdirs -> Struct] /\ TypeInv /\ ReportedOK
      /\ \A g \in Nfsdirs : nfsdir[g] \in Struct /\ ListingOK(nfsdir[g], reported)
  BY DEF IInv, TypeInv
<1>2. /\ nfsdir[h].st = "found" /\ dircache' = nfs_dircache_find(d).rest
      /\ UNCHANGED <<contents, reported>>
  BY Zenon, ZenonT(60) DEF nfs3_opendir_continue_internal, server
<1>3. /\ found \subseteq Nfsdirs /\ \A c \in found : nfsdir[c].st = "cached"
      /\ \A c, g \in found : c = g
  <2>1. found \subseteq Range(dircache) /\ \A c, g \in found : c = g
    BY FindEffect, Zenon, ZenonT(60)
  <2>2. Range(dircache) = {g \in Nfsdirs : nfsdir[g].st = "cached"}
    BY DEF IInv, CacheSound
  <2>. QED  BY <2>1, <2>2
<1>4. \/ Hit # {} /\ nfsdir' = [g \in Nfsdirs |->
                            CASE g \in Hit -> [nfsdir[g] EXCEPT !.st = "app", !.asof = nfsdir[h].asof]
                              [] g = h -> Freed
                              [] OTHER -> nfsdir[g]]
      \/ nfsdir' = [Free(found) EXCEPT ![h].st = "reading", ![h].attr = NoAttr]
      \/ nfsdir' = Free(found \cup {h})
  BY Zenon, ZenonT(60) DEF nfs3_opendir_continue_internal
<1>5. SUFFICES
        /\ nfsdir' \in [Nfsdirs -> Struct]
        /\ \A g \in Nfsdirs : nfsdir'[g].st = "cached" <=> g \notin found /\ nfsdir[g].st = "cached"
        /\ \A g \in Nfsdirs : ListingOK(nfsdir'[g], reported)
  <2>1. dircache' \in Seq(Nfsdirs) /\ CacheSound'
    BY <1>2, <1>5, TakenOff, Zenon, ZenonT(60)
  <2>2. TypeInv' /\ ReportedOK'
    BY <1>1, <1>2, <1>5, <2>1 DEF TypeInv, ReportedOK
  <2>. QED  BY <1>2, <1>5, <2>1, <2>2, Zenon, ZenonT(60) DEF IInv
<1>6. CASE /\ Hit # {}
           /\ nfsdir' = [g \in Nfsdirs |->
                            CASE g \in Hit -> [nfsdir[g] EXCEPT !.st = "app", !.asof = nfsdir[h].asof]
                              [] g = h -> Freed
                              [] OTHER -> nfsdir[g]]
  <2>1. PICK c \in found : Unchanged(nfsdir[h].attr, c) /\ Hit = {c} /\ found = {c}
    BY <1>3, <1>6, Zenon, ZenonT(60)
  <2>2. c \in Nfsdirs /\ nfsdir[c].st = "cached" /\ c # h
    BY <1>2, <1>3
  <2> DEFINE n == [nfsdir[c] EXCEPT !.st = "app", !.asof = nfsdir[h].asof]
  <2>3. \A g \in Nfsdirs : nfsdir'[g] = IF g = c THEN n ELSE IF g = h THEN Freed ELSE nfsdir[g]
    <3> HIDE DEF Hit, found
    <3> SUFFICES ASSUME NEW g \in Nfsdirs
                 PROVE  nfsdir'[g] = IF g = c THEN n ELSE IF g = h THEN Freed ELSE nfsdir[g]
      OBVIOUS
    <3>1. g \in Hit <=> g = c
      BY <2>1
    <3>2. nfsdir'[g] = CASE g \in Hit -> [nfsdir[g] EXCEPT !.st = "app", !.asof = nfsdir[h].asof]
                         [] g = h -> Freed
                         [] OTHER -> nfsdir[g]
      BY <1>6, Zenon, ZenonT(60)
    <3>3. CASE g = c
      BY <2>2, <3>1, <3>2, <3>3
    <3>4. CASE g # c
      BY <2>2, <3>1, <3>2, <3>4
    <3>. QED  BY <3>3, <3>4
  <2>4. nfsdir[h].asof \in Nat
    BY <1>1 DEF Struct
  <2>5. n \in Struct
    BY <1>1, <2>2, <2>4 DEF Struct
  <2>6. n.st = "app" /\ n.asof = nfsdir[h].asof
    BY <1>1, <2>2 DEF Struct
  <2>7. n.dir = nfsdir[c].dir /\ n.parts = nfsdir[c].parts /\ n.mtime = nfsdir[c].mtime
    BY <1>1, <2>2 DEF Struct
  <2>8. Last(nfsdir[c].parts) >= nfsdir[h].asof
    <3>1. nfsdir[h].attr # NoAttr /\ nfsdir[h].attr = nfsdir[c].mtime
      BY <2>1 DEF Unchanged
    <3>2. nfsdir[c].mtime = Last(nfsdir[c].parts)
      BY <1>1, <2>2, <3>1 DEF ListingOK
    <3>. QED  BY <1>1, <1>2, <3>1, <3>2 DEF ListingOK
  <2>9. ListingOK(n, reported)
    BY <1>1, <2>2, <2>6, <2>7, <2>8 DEF ListingOK
  <2> HIDE DEF n, found, Hit, d
  <2>10. nfsdir' = [g \in Nfsdirs |-> IF g = c THEN n ELSE IF g = h THEN Freed ELSE nfsdir[g]]
    BY <1>6, <2>3, Zenon, ZenonT(60)
  <2>11. nfsdir' \in [Nfsdirs -> Struct]
    BY <1>1, <2>5, <2>10, FreedOK
  <2>12. \A g \in Nfsdirs : nfsdir'[g].st = "cached" <=> g \notin found /\ nfsdir[g].st = "cached"
    BY <1>2, <2>1, <2>3, <2>6, FreedOK
  <2>13. \A g \in Nfsdirs : ListingOK(nfsdir'[g], reported)
    BY <1>1, <2>3, <2>9, FreedOK, Zenon, ZenonT(60)
  <2>. QED  BY <2>11, <2>12, <2>13
<1>7. CASE nfsdir' = [Free(found) EXCEPT ![h].st = "reading", ![h].attr = NoAttr]
  <2> DEFINE n == [nfsdir[h] EXCEPT !.st = "reading", !.attr = NoAttr]
  <2>1. h \notin found /\ nfsdir[h] \in Struct /\ ListingOK(nfsdir[h], reported)
    BY <1>1, <1>2, <1>3
  <2>2. n \in Struct
    BY <2>1 DEF Struct, NoAttr
  <2>3. n.st = "reading" /\ n.dir = nfsdir[h].dir /\ n.asof = nfsdir[h].asof
    BY <2>1 DEF Struct
  <2>4. ListingOK(n, reported)
    <3> HIDE DEF n
    <3>. QED  BY <1>2, <2>1, <2>3 DEF ListingOK
  <2> HIDE DEF found, Hit, d
  <2>5. nfsdir' = [g \in Nfsdirs |-> IF g \in found THEN Freed ELSE IF g = h THEN n ELSE nfsdir[g]]
    BY <1>1, <1>7, <2>1, Zenon, ZenonT(60) DEF Free
  <2> HIDE DEF n
  <2>6. nfsdir' \in [Nfsdirs -> Struct]
    BY <1>1, <2>2, <2>5, FreedOK
  <2>7. \A g \in Nfsdirs : nfsdir'[g].st = "cached" <=> g \notin found /\ nfsdir[g].st = "cached"
    BY <1>2, <2>3, <2>5, FreedOK
  <2>8. \A g \in Nfsdirs : ListingOK(nfsdir'[g], reported)
    BY <1>1, <2>4, <2>5, FreedOK, Zenon, ZenonT(60)
  <2>. QED  BY <2>6, <2>7, <2>8
<1>8. CASE nfsdir' = Free(found \cup {h})
  <2> HIDE DEF found, Hit, d
  <2>1. nfsdir' = [g \in Nfsdirs |-> IF g \in found \cup {h} THEN Freed ELSE nfsdir[g]]
    BY <1>8 DEF Free
  <2>2. nfsdir' \in [Nfsdirs -> Struct]
    BY <1>1, <2>1, FreedOK
  <2>3. \A g \in Nfsdirs : nfsdir'[g].st = "cached" <=> g \notin found /\ nfsdir[g].st = "cached"
    BY <1>2, <2>1, FreedOK
  <2>4. \A g \in Nfsdirs : ListingOK(nfsdir'[g], reported)
    BY <1>1, <2>1, FreedOK
  <2>. QED  BY <2>2, <2>3, <2>4
<1>. QED  BY <1>4, <1>6, <1>7, <1>8, Zenon, ZenonT(60)

\* The part that ends a listing is read after opendir was called, and its mtime is kept.
LEMMA ReadStep == ASSUME IInv, NEW h \in Nfsdirs, nfs3_opendir_cb(h) PROVE IInv'
<1> DEFINE d == nfsdir[h].dir
           parts == Append(nfsdir[h].parts, contents[d])
<1>1. UNCHANGED <<dircache, contents, reported>> /\ nfsdir[h].st = "reading"
  BY DEF nfs3_opendir_cb, server
<1>2. /\ nfsdir \in [Nfsdirs -> Struct] /\ nfsdir[h] \in Struct
      /\ ListingOK(nfsdir[h], reported)
  BY DEF IInv, TypeInv
<1>3. d \in Dirs /\ nfsdir[h].parts \in Seq(Nat) /\ nfsdir[h].asof \in Nat
  BY <1>1, <1>2 DEF ListingOK, Struct
<1>4. contents[d] \in Nat /\ contents[d] >= nfsdir[h].asof
  <2>1. /\ contents[d] \in Nat /\ reported[d] \in Nat /\ reported[d] <= contents[d]
    BY <1>3 DEF IInv, TypeInv, ReportedOK
  <2>2. nfsdir[h].asof <= reported[d]
    BY <1>1, <1>2 DEF ListingOK
  <2>. QED  BY <1>3, <2>1, <2>2
<1>5. parts \in Seq(Nat) /\ parts # <<>> /\ Last(parts) = contents[d]
  BY <1>3, <1>4 DEF Last
<1> HIDE DEF parts
<1>6. CASE nfsdir' = [nfsdir EXCEPT ![h].parts = parts]
  <2> DEFINE n == [nfsdir[h] EXCEPT !.parts = parts]
  <2>1. nfsdir' = [nfsdir EXCEPT ![h] = n]
    BY <1>2, <1>6
  <2>2. n \in Struct
    BY <1>2, <1>5 DEF Struct
  <2>3. n.st = "reading" /\ n.dir = d /\ n.asof = nfsdir[h].asof
    BY <1>1, <1>2 DEF Struct
  <2> HIDE DEF n
  <2>4. ListingOK(n, reported) /\ n.st # "cached" /\ nfsdir[h].st # "cached"
    BY <1>1, <1>2, <2>3 DEF ListingOK
  <2>. QED  BY <1>1, <2>1, <2>2, <2>4, OneStruct, Zenon, ZenonT(60)
<1>7. CASE \E a \in {NoAttr, contents[d]} :
             nfsdir' = [[nfsdir EXCEPT ![h].parts = parts] EXCEPT ![h].st = "app", ![h].mtime = a]
  <2>1. PICK a \in {NoAttr, contents[d]} :
               nfsdir' = [[nfsdir EXCEPT ![h].parts = parts] EXCEPT ![h].st = "app", ![h].mtime = a]
    BY <1>7, Zenon, ZenonT(60)
  <2> DEFINE n == [[nfsdir[h] EXCEPT !.parts = parts] EXCEPT !.st = "app", !.mtime = a]
  <2>2. nfsdir' = [nfsdir EXCEPT ![h] = n]
    BY <1>2, <2>1, Zenon, ZenonT(60)
  <2>3. a \in Nat
    BY <1>4 DEF NoAttr
  <2>4. n \in Struct
    BY <1>2, <1>5, <2>3 DEF Struct
  <2>5. n.st = "app" /\ n.mtime = a /\ n.parts = parts
    BY <1>2 DEF Struct
  <2>6. n.dir = d /\ n.asof = nfsdir[h].asof
    BY <1>2 DEF Struct
  <2> HIDE DEF n
  <2>7. ListingOK(n, reported) /\ n.st # "cached" /\ nfsdir[h].st # "cached"
    BY <1>1, <1>3, <1>4, <1>5, <2>5, <2>6 DEF ListingOK
  <2>. QED  BY <1>1, <2>2, <2>4, <2>7, OneStruct, Zenon, ZenonT(60)
<1>8. CASE nfsdir' = Free({h})
  BY <1>1, <1>8, GiveUp
<1>9. \/ nfsdir' = [nfsdir EXCEPT ![h].parts = parts]
      \/ \E a \in {NoAttr, contents[d]} :
             nfsdir' = [[nfsdir EXCEPT ![h].parts = parts] EXCEPT ![h].st = "app", ![h].mtime = a]
      \/ nfsdir' = Free({h})
  BY Zenon, ZenonT(60) DEF nfs3_opendir_cb, parts
<1>. QED  BY <1>6, <1>7, <1>8, <1>9, Zenon, ZenonT(60)

\* A listing that is closed goes to the front of the list; what it pushes out is freed.
LEMMA ClosedirStep == ASSUME IInv, NEW h \in Nfsdirs, nfs_closedir(h) PROVE IInv'
<1>1. /\ nfsdir \in [Nfsdirs -> Struct] /\ TypeInv /\ ReportedOK
      /\ \A g \in Nfsdirs : nfsdir[g] \in Struct /\ ListingOK(nfsdir[g], reported)
  BY DEF IInv, TypeInv
<1>2. UNCHANGED <<contents, reported>> /\ nfsdir[h].st = "app"
  BY DEF nfs_closedir, server
<1>3. CASE nfsdir' = Free({h}) /\ UNCHANGED dircache
  BY <1>2, <1>3, GiveUp
<1>4. CASE nfs_dircache_add(h)
  <2> DEFINE list == <<h>> \o dircache
             last == MAX_DIR_CACHE + 2
             n == [nfsdir[h] EXCEPT !.st = "cached", !.asof = 0]
             added == [nfsdir EXCEPT ![h].st = "cached", ![h].asof = 0]
  <2>1. /\ dircache \in Seq(Nfsdirs) /\ Len(dircache) \in Nat
        /\ Len(dircache) <= MAX_DIR_CACHE + 1
        /\ \A a, b \in DOMAIN dircache : dircache[a] = dircache[b] => a = b
        /\ Range(dircache) = {g \in Nfsdirs : nfsdir[g].st = "cached"}
    BY DEF IInv, TypeInv, CacheSound
  <2>2. h \in Nfsdirs \ Range(dircache)
    BY <1>2, <2>1
  <2>3. /\ list \in Seq(Nfsdirs)
        /\ Len(list) = Len(dircache) + 1
        /\ \A a, b \in DOMAIN list : list[a] = list[b] => a = b
        /\ Range(list) = Range(dircache) \cup {h}
    BY <2>1, <2>2, ConsEntry, Zenon, ZenonT(60)
  <2>4. n \in Struct
    BY <1>1 DEF Struct
  <2>5. n.st = "cached" /\ n.dir = nfsdir[h].dir
    BY <1>1 DEF Struct
  <2>6. n.parts = nfsdir[h].parts /\ n.mtime = nfsdir[h].mtime
    BY <1>1 DEF Struct
  <2>7. added = [g \in Nfsdirs |-> IF g = h THEN n ELSE nfsdir[g]]
    BY <1>1, Zenon, ZenonT(60)
  <2>8. \/ Len(list) < last /\ dircache' = list /\ nfsdir' = added
        \/ /\ ~(Len(list) < last) /\ dircache' = RemoveAt(list, last)
           /\ nfsdir' = [added EXCEPT ![list[last]] = Freed]
    BY <1>4, Zenon, ZenonT(60) DEF nfs_dircache_add
  <2> HIDE DEF list, n, added
  <2>9. ListingOK(n, reported)
    BY <1>1, <1>2, <2>5, <2>6 DEF ListingOK
  <2>10. /\ added \in [Nfsdirs -> Struct]
         /\ \A g \in Nfsdirs : added[g].st = "cached" <=> g \in Range(list)
         /\ \A g \in Nfsdirs : ListingOK(added[g], reported)
    <3>1. \A g \in Nfsdirs : added[g] = IF g = h THEN n ELSE nfsdir[g]
      BY <2>7
    <3>2. added \in [Nfsdirs -> Struct]
      BY <1>1, <2>4, <2>7
    <3>3. \A g \in Nfsdirs : added[g].st = "cached" <=> g \in Range(list)
      BY <2>1, <2>3, <2>5, <3>1
    <3>4. \A g \in Nfsdirs : ListingOK(added[g], reported)
      BY <1>1, <2>9, <3>1, Zenon, ZenonT(60)
    <3>. QED  BY <3>2, <3>3, <3>4
  <2>11. SUFFICES /\ dircache' \in Seq(Nfsdirs)
                  /\ \A a, b \in DOMAIN dircache' : dircache'[a] = dircache'[b] => a = b
                  /\ Len(dircache') <= MAX_DIR_CACHE + 1
                  /\ nfsdir' \in [Nfsdirs -> Struct]
                  /\ Range(dircache') = {g \in Nfsdirs : nfsdir'[g].st = "cached"}
                  /\ \A g \in Nfsdirs : ListingOK(nfsdir'[g], reported)
    <3>1. TypeInv' /\ ReportedOK'
      BY <1>1, <1>2, <2>11 DEF TypeInv, ReportedOK
    <3>2. CacheSound'
      BY <2>11, Zenon, ZenonT(60) DEF CacheSound
    <3>. QED  BY <1>2, <2>11, <3>1, <3>2, Zenon, ZenonT(60) DEF IInv
  <2>12. Range(list) \subseteq Nfsdirs
    BY <2>1, <2>3
  <2>13. CASE Len(list) < last /\ dircache' = list /\ nfsdir' = added
    <3>1. Len(list) <= MAX_DIR_CACHE + 1
      BY <2>1, <2>3, <2>13, DirCacheAssumption
    <3>2. Range(list) = {g \in Nfsdirs : added[g].st = "cached"}
      BY <2>10, <2>12
    <3>. QED  BY <2>3, <2>10, <2>13, <3>1, <3>2, Zenon, ZenonT(60)
  <2>14. CASE /\ ~(Len(list) < last) /\ dircache' = RemoveAt(list, last)
              /\ nfsdir' = [added EXCEPT ![list[last]] = Freed]
    <3> DEFINE out == list[last]
    <3>1. last \in DOMAIN list /\ Len(list) = MAX_DIR_CACHE + 2
      BY <2>1, <2>3, <2>14, DirCacheAssumption
    <3>2. /\ dircache' \in Seq(Nfsdirs)
          /\ Len(dircache') = Len(list) - 1
          /\ \A a, b \in DOMAIN dircache' : dircache'[a] = dircache'[b] => a = b
          /\ Range(dircache') = Range(list) \ {out}
      <4> DEFINE t == RemoveAt(list, last)
      <4>1. dircache' = t
        BY <2>14
      <4>2. last \in DOMAIN list
        BY <3>1
      <4> HIDE DEF last
      <4>3. /\ t \in Seq(Nfsdirs)
            /\ Len(t) = Len(list) - 1
            /\ \A a, b \in DOMAIN t : t[a] = t[b] => a = b
            /\ Range(t) = Range(list) \ {out}
        BY <2>3, <4>2, RemoveEntry, Zenon, ZenonT(60)
      <4> HIDE DEF t
      <4>. QED  BY <4>1, <4>3, Zenon, ZenonT(60)
    <3>3. Len(dircache') <= MAX_DIR_CACHE + 1
      BY <3>1, <3>2, DirCacheAssumption
    <3>4. out \in Nfsdirs
      BY <2>3, <3>1
    <3>5. nfsdir' = [g \in Nfsdirs |-> IF g = out THEN Freed ELSE added[g]]
      BY <2>10, <2>14, <3>4, Zenon, ZenonT(60)
    <3> HIDE DEF out, last
    <3>6. nfsdir' \in [Nfsdirs -> Struct]
      BY <2>10, <3>5, FreedOK
    <3>7. \A g \in Nfsdirs : nfsdir'[g].st = "cached" <=> g \in Range(list) \ {out}
      BY <2>10, <3>5, FreedOK
    <3>8. Range(dircache') = {g \in Nfsdirs : nfsdir'[g].st = "cached"}
      BY <2>12, <3>2, <3>7
    <3>9. \A g \in Nfsdirs : ListingOK(nfsdir'[g], reported)
      BY <2>10, <3>5, FreedOK
    <3>. QED  BY <3>2, <3>3, <3>6, <3>8, <3>9, Zenon, ZenonT(60)
  <2>. QED  BY <2>8, <2>13, <2>14
<1>. QED  BY <1>3, <1>4 DEF nfs_closedir

\* A change, its report and the drop that goes with it only free listings.
LEMMA ChangeEffect ==
  ASSUME IInv, dircache' \in Seq(Nfsdirs), nfsdir' \in [Nfsdirs -> Struct], CacheSound',
         \A h \in Nfsdirs : nfsdir'[h] \in {nfsdir[h], Freed},
         contents' \in [Dirs -> Nat], reported' \in [Dirs -> Nat],
         \A d \in Dirs : reported[d] <= reported'[d] /\ reported'[d] <= contents'[d]
  PROVE  IInv'
<1>1. TypeInv' /\ ReportedOK'
  BY DEF TypeInv, ReportedOK
<1>2. ASSUME NEW h \in Nfsdirs PROVE ListingOK(nfsdir'[h], reported')
  <2>1. CASE nfsdir'[h] = Freed
    BY <2>1, FreedOK, Zenon, ZenonT(60)
  <2>2. CASE nfsdir'[h] = nfsdir[h]
    <3> DEFINE n == nfsdir[h]
    <3>1. n \in Struct /\ ListingOK(n, reported)
      BY DEF IInv, TypeInv
    <3> HIDE DEF n
    <3>2. n.st \in {"lookup", "found", "reading"} => n.asof <= reported'[n.dir]
      <4> SUFFICES ASSUME n.st \in {"lookup", "found", "reading"}
                   PROVE  n.asof <= reported'[n.dir]
        OBVIOUS
      <4>1. n.dir \in Dirs /\ n.asof <= reported[n.dir] /\ n.asof \in Nat
        BY <3>1 DEF ListingOK, Struct
      <4>2. /\ reported[n.dir] \in Nat /\ reported'[n.dir] \in Nat
            /\ reported[n.dir] <= reported'[n.dir]
        BY <4>1 DEF IInv, TypeInv
      <4>. QED  BY <4>1, <4>2
    <3>3. ListingOK(n, reported')
      BY <3>1, <3>2, Zenon, ZenonT(60) DEF ListingOK
    <3>. QED  BY <2>2, <3>3 DEF n
  <2>. QED  BY <2>1, <2>2
<1>. QED  BY <1>1, <1>2, Zenon, ZenonT(60) DEF IInv

\* Nothing of the cache changes.
LEMMA SameCache ==
  ASSUME IInv, UNCHANGED <<dircache, nfsdir>>
  PROVE  /\ dircache' \in Seq(Nfsdirs) /\ nfsdir' \in [Nfsdirs -> Struct] /\ CacheSound'
         /\ \A h \in Nfsdirs : nfsdir'[h] \in {nfsdir[h], Freed}
<1>1. dircache' = dircache /\ nfsdir' = nfsdir /\ TypeInv /\ CacheSound
  BY DEF IInv
<1>2. CacheSound'
  BY <1>1, Zenon, ZenonT(60) DEF CacheSound
<1>. QED  BY <1>1, <1>2 DEF TypeInv

\* Requests that change a directory, from the sending to the reply or the failure, and
\* changes made by other clients.
LEMMA ChangeStep ==
  ASSUME IInv, NEW d \in Dirs,
         SendChange(d) \/ ServeChange(d) \/ ChangeReply(d) \/ ChangeFails(d)
  PROVE  IInv'
<1>1. /\ contents \in [Dirs -> Nat] /\ reported \in [Dirs -> Nat]
      /\ \A e \in Dirs : reported[e] <= contents[e]
  BY DEF IInv, TypeInv, ReportedOK
<1>2. UNCHANGED <<dircache, nfsdir>> \/ nfs_dircache_drop(d)
  BY DEF SendChange, ServeChange, ChangeReply, ChangeFails
<1>3. /\ dircache' \in Seq(Nfsdirs) /\ nfsdir' \in [Nfsdirs -> Struct] /\ CacheSound'
      /\ \A h \in Nfsdirs : nfsdir'[h] \in {nfsdir[h], Freed}
  BY <1>2, SameCache, DropEffect, Zenon, ZenonT(60)
<1>4. \/ contents' = contents /\ reported' = reported
      \/ contents' = [contents EXCEPT ![d] = @ + 1] /\ reported' = reported
      \/ contents' = contents /\ reported' = [reported EXCEPT ![d] = contents[d]]
  BY DEF SendChange, ServeChange, ChangeReply, ChangeFails
<1>5. contents' \in [Dirs -> Nat] /\ reported' \in [Dirs -> Nat]
  BY <1>1, <1>4
<1>6. \A e \in Dirs : reported[e] <= reported'[e] /\ reported'[e] <= contents'[e]
  BY <1>1, <1>4
<1>. QED  BY <1>3, <1>5, <1>6, ChangeEffect, Zenon, ZenonT(60)

\* Every step keeps the invariant.
LEMMA NextIInv == IInv /\ [Next]_vars => IInv'
<1> SUFFICES ASSUME IInv, [Next]_vars PROVE IInv'
  OBVIOUS
<1>1. ASSUME NEW h \in Nfsdirs, NEW d \in Dirs, nfs3_opendir_async(h, d) PROVE IInv'
  BY <1>1, OpendirStep
<1>2. ASSUME NEW h \in Nfsdirs, Lookup(h) PROVE IInv'
  BY <1>2, LookupStep
<1>3. ASSUME NEW h \in Nfsdirs, nfs3_opendir_continue_internal(h) PROVE IInv'
  BY <1>3, ContinueStep
<1>4. ASSUME NEW h \in Nfsdirs, nfs3_opendir_cb(h) PROVE IInv'
  BY <1>4, ReadStep
<1>5. ASSUME NEW h \in Nfsdirs, nfs_closedir(h) PROVE IInv'
  BY <1>5, ClosedirStep
<1>6. ASSUME NEW d \in Dirs,
             SendChange(d) \/ ServeChange(d) \/ ChangeReply(d) \/ ChangeFails(d)
      PROVE  IInv'
  BY <1>6, ChangeStep
<1>7. CASE nfs_set_dircache \/ UNCHANGED vars
  <2>1. /\ UNCHANGED <<dircache, nfsdir>>
        /\ contents' = contents /\ reported' = reported
    BY <1>7 DEF nfs_set_dircache, vars, server
  <2>2. /\ contents \in [Dirs -> Nat] /\ reported \in [Dirs -> Nat]
        /\ \A d \in Dirs : reported[d] <= contents[d]
    BY DEF IInv, TypeInv, ReportedOK
  <2>3. /\ contents' \in [Dirs -> Nat] /\ reported' \in [Dirs -> Nat]
        /\ \A d \in Dirs : reported[d] <= reported'[d] /\ reported'[d] <= contents'[d]
    BY <2>1, <2>2
  <2>. QED  BY <2>1, <2>3, SameCache, ChangeEffect, Zenon, ZenonT(60)
<1>. QED  BY <1>1, <1>2, <1>3, <1>4, <1>5, <1>6, <1>7, Zenon, ZenonT(60) DEF Next

-----------------------------------------------------------------------------
(* Theorems.                                                               *)

\* A struct nfsdir has one owner in every reachable state, whatever the requests in
\* flight: nfs_dircache_add, nfs_dircache_find and nfs_dircache_drop neither leak a
\* listing nor free one that is still listed, and the list keeps its bound.
THEOREM CacheAlwaysSound == Spec => []CacheSound
<1>1. IInv => CacheSound
  BY DEF IInv
<1>. QED  BY <1>1, InitIInv, NextIInv, PTL DEF Spec

\* Whoever opens a directory after a change of theirs was reported sees the change,
\* whether the listing comes from the cache (nfs3_opendir_continue_internal) or from the
\* server (nfs3_opendir_cb).
THEOREM OwnChangesAlwaysSeen == Spec => []OwnChangesSeen
<1>1. IInv => OwnChangesSeen
  BY Zenon, ZenonT(60) DEF IInv, OwnChangesSeen, ListingOK
<1>. QED  BY <1>1, InitIInv, NextIInv, PTL DEF Spec

=============================================================================
