-------------------------- MODULE RpcServersProofs --------------------------
(***************************************************************************)
(* Theorems about RpcServers, for any servers, clients, programs, sizes of *)
(* the file of rpcbind and numbers of faults.                              *)
(***************************************************************************)
EXTENDS RpcServers, FiniteSetTheorems, TLAPS

\* A leaf that names no prover is tried with these in turn: the short limits first, then
\* the longer ones, which only a busy machine needs.
USE SMT, Zenon, SMTT(60), ZenonT(60), SMTT(180)

-----------------------------------------------------------------------------
(* The table of rpcbind and its file.                                      *)

\* No two registrations of t have the same program, version and netid.
Unique(t) ==
  \A d, e \in t : (d.prog = e.prog /\ d.vers = e.vers /\ d.netid = e.netid) => d = e

\* What a step can make of the table, the file and the process.
TableStep ==
  \/ UNCHANGED <<map, db, owed, up>>
  \/ \E item : /\ Idle /\ map_lookup(map, item.prog, item.vers, item.netid) = {}
               /\ map' = pmap_register(map, item) /\ owed' = TRUE
               /\ UNCHANGED <<db, up>>
  \/ \E prog, vers, netid : /\ map' = map_remove(map, prog, vers, netid) /\ owed' = TRUE
                            /\ UNCHANGED <<db, up>>
  \/ /\ db' = IF Cardinality(map) <= DbCapacity THEN map ELSE db
     /\ owed' = FALSE /\ UNCHANGED <<map, up>>
  \/ up' = FALSE /\ UNCHANGED <<map, db>>
  \/ map' = db /\ UNCHANGED <<db, owed>>

\* read_db registers exactly what is on file.
LEMMA ReadDb == read_db = db
BY DEF read_db, pmap_register

\* SET, one version after the other, registers only what is not registered.
LEMMA SetTable == ASSUME NEW to, NEW proc, NEW item, Set(to, proc, item) PROVE TableStep
<1>1. CASE map_lookup(map, item.prog, item.vers, item.netid) # {}
  BY <1>1, Zenon, ZenonT(60) DEF Set, TableStep
<1>2. CASE map_lookup(map, item.prog, item.vers, item.netid) = {}
  <2>1. /\ Idle /\ map' = pmap_register(map, item) /\ owed' = TRUE
        /\ db' = db /\ up' = up
    BY <1>2, Zenon, ZenonT(60) DEF Set
  <2>. QED  BY <1>2, <2>1, Zenon, ZenonT(60) DEF TableStep
<1>. QED  BY <1>1, <1>2

\* The procedures of rpcbind.
LEMMA ProcedureTable ==
  ASSUME NEW to, NEW vers, NEW proc, NEW a, Procedure(to, vers, proc, a)
  PROVE  TableStep
<1>1. \/ UNCHANGED <<map, db, owed, up>>
      \/ \E p, item : Set(to, p, item)
      \/ \E p, prog, v, netid : Unset(to, p, prog, v, netid)
  BY Zenon, ZenonT(60)
       DEF Procedure, Stateless, pmap2_set_proc, pmap3_set_proc, pmap2_unset_proc,
       pmap3_unset_proc, pmap2_getport_proc, pmap3_getaddr_proc, pmap2_dump_proc,
       pmap3_dump_proc, Dump, pmapX_callit_proc
<1>2. ASSUME NEW p, NEW prog, NEW v, NEW netid, Unset(to, p, prog, v, netid)
      PROVE  TableStep
  BY <1>2, Zenon, ZenonT(60) DEF Unset, TableStep
<1>. QED  BY <1>1, <1>2, SetTable, Zenon, ZenonT(60) DEF TableStep

\* Every step of the servers and their clients is one of these.
LEMMA NextTable == ASSUME [Next]_vars PROVE TableStep
<1>1. ASSUME NEW s \in Servers,
             Start(s) \/ StartFails(s) \/ pmap4_set_cb(s) \/ timeout_cb(s) \/ Exit(s)
      PROVE  UNCHANGED <<map, db, owed, up>>
  BY <1>1, Zenon, ZenonT(60) DEF Start, StartFails, pmap4_set_cb, timeout_cb, Exit, bindvars
<1>2. CASE ServeRequest
  BY <1>2, ProcedureTable, Zenon, ZenonT(60) DEF ServeRequest
<1>3. CASE LoseRequest \/ LoseReply
  BY <1>3, Zenon, ZenonT(60) DEF LoseRequest, LoseReply, bindvars, TableStep
<1>4. ASSUME NEW c \in Clients, ServeClient(c) PROVE TableStep
  BY <1>4, ProcedureTable, Zenon, ZenonT(60) DEF ServeClient, bindvars, TableStep
<1>5. ASSUME NEW c \in MountClients, ServeMount(c) PROVE TableStep
  BY <1>5, Zenon, ZenonT(60) DEF ServeMount, bindvars, TableStep
<1>6. CASE Forwarded
  BY <1>6, Zenon, ZenonT(60) DEF Forwarded, callit_cb, callit_timeout_cb, TableStep
<1>7. CASE Save
  BY <1>7, Zenon, ZenonT(60) DEF Save, write_db, TableStep
<1>8. CASE RpcbindDies
  BY <1>8, Zenon, ZenonT(60) DEF RpcbindDies, Die, TableStep
<1>9. CASE RpcbindRestarts
  BY <1>9, ReadDb, Zenon, ZenonT(60) DEF RpcbindRestarts, Restart, TableStep
<1>10. CASE UNCHANGED vars
  BY <1>10, Zenon, ZenonT(60) DEF vars, bindvars, TableStep
<1>. QED  BY <1>1, <1>2, <1>3, <1>4, <1>5, <1>6, <1>7, <1>8, <1>9, <1>10, Zenon, ZenonT(60)
          DEF Next, TableStep

\* OneRegistration is inductive: UNSET and the file only leave registrations out.
LEMMA OneRegistrationStep == ASSUME OneRegistration, TableStep PROVE OneRegistration'
<1>1. Unique(map) /\ Unique(db)
  BY Zenon, ZenonT(60) DEF OneRegistration, Unique
<1>2. SUFFICES Unique(map') /\ Unique(db')
  BY Zenon, ZenonT(60) DEF OneRegistration, Unique
<1>3. ASSUME NEW item, map_lookup(map, item.prog, item.vers, item.netid) = {}
      PROVE  Unique(pmap_register(map, item))
  BY <1>1, <1>3, Zenon, ZenonT(60) DEF Unique, map_lookup, pmap_register
<1>4. ASSUME NEW prog, NEW vers, NEW netid PROVE Unique(map_remove(map, prog, vers, netid))
  BY <1>1, Zenon, ZenonT(60) DEF Unique, map_remove
<1>. QED  BY <1>1, <1>3, <1>4, Zenon, ZenonT(60) DEF TableStep

\* So is OnFile: who changes the table owes the file.
LEMMA OnFileStep == ASSUME OnFile, TableStep PROVE OnFile'
<1>1. CASE /\ db' = IF Cardinality(map) <= DbCapacity THEN map ELSE db
           /\ owed' = FALSE /\ UNCHANGED <<map, up>>
  <2>1. CASE Cardinality(map) <= DbCapacity
    BY <1>1, <2>1 DEF OnFile
  <2>2. CASE ~(Cardinality(map) <= DbCapacity)
    BY <1>1, <2>2 DEF OnFile
  <2>. QED  BY <2>1, <2>2
<1>2. CASE UNCHANGED <<map, db, owed, up>>
  BY <1>2 DEF OnFile
<1>3. CASE owed' = TRUE \/ up' = FALSE
  BY <1>3, Zenon, ZenonT(60) DEF OnFile
<1>4. CASE map' = db /\ UNCHANGED <<db, owed>>
  BY <1>4 DEF OnFile
<1>. QED  BY <1>1, <1>2, <1>3, <1>4, Zenon, ZenonT(60) DEF TableStep

-----------------------------------------------------------------------------
(* The requests of a server.                                               *)

\* The program, version and netid that a request is about.
KeyOf(q) == <<[prog |-> q.prog, vers |-> q.vers], q.netid>>

\* Requests about the same key: an older process first, then the UNSET first.
Before(a, b) == a.inst < b.inst \/ (a.inst = b.inst /\ a.proc = 2 /\ b.proc = 1)

Ordered(l) ==
  \A i, j \in DOMAIN l : i < j /\ KeyOf(l[i]) = KeyOf(l[j]) => Before(l[i], l[j])

AllRequests ==
  {q \in [proc : {1, 2}, from : Servers, inst : Nat, prog : {e.prog : e \in ProgVers},
          vers : {e.vers : e \in ProgVers}, netid : Netids] : KeyOf(q) \in Keys(q.from)}

\* The requests of l are of the process of s with port p; those of s are of older ones.
AllOf(s, p, l) == \A i \in DOMAIN l : l[i].from = s /\ l[i].inst = p
AllOlder(s, p, l) == \A i \in DOMAIN l : l[i].from = s => l[i].inst < p

\* l is a whole batch of requests, two about each key.
IsBatch(s, p, l) ==
  /\ l \in Seq(AllRequests) /\ Len(l) = 2 * Cardinality(Keys(s))
  /\ AllOf(s, p, l) /\ Ordered(l)
  /\ \A r \in Keys(s), proc \in {1, 2} : Request(s, p, r, proc) \in Range(l)

\* The keys of a server are finitely many.
LEMMA KeysFinite == ASSUME NEW s \in Servers
                    PROVE  IsFiniteSet(Keys(s)) /\ Cardinality(Keys(s)) \in Nat
<1>1. Netids \in SUBSET Known
  BY DEF Netids
<1>2. IsFiniteSet(Netids)
  BY <1>1, ServersAssumption, FS_Subset
<1>3. IsFiniteSet(Keys(s))
  BY <1>2, ServersAssumption, FS_Product DEF Keys
<1>. QED  BY <1>3, FS_CardinalityType

\* They are put in an order, each once.
LEMMA KeyOrder ==
  ASSUME NEW s \in Servers, NEW n, n = Cardinality(Keys(s)),
         NEW keys, keys = Listed(Keys(s))
  PROVE  /\ n \in Nat /\ keys \in [1..n -> Keys(s)] /\ Len(keys) = n
         /\ \A i, j \in 1..n : keys[i] = keys[j] => i = j
         /\ \A r \in Keys(s) : \E i \in 1..n : keys[i] = r
<1>1. n \in Nat /\ IsFiniteSet(Keys(s)) /\ ExistsBijection(1..n, Keys(s))
  BY KeysFinite, FS_CardinalityType
<1>2. \E f \in [1..n -> Keys(s)] : IsInjective(f)
  BY <1>1, Zenon, ZenonT(60) DEF ExistsBijection, Bijection, Injection
<1>3. keys \in [1..n -> Keys(s)] /\ IsInjective(keys)
  BY <1>2, Zenon, ZenonT(60) DEF Listed
<1>4. keys \in Injection(1..n, Keys(s))
  BY <1>3, Zenon, ZenonT(60) DEF Injection
<1>5. IsFiniteSet(1..n) /\ Cardinality(1..n) = n
  BY <1>1, FS_Interval
<1>6. keys \in Surjection(1..n, Keys(s))
  BY <1>1, <1>4, <1>5, FS_Injection, Zenon, ZenonT(60)
<1>7. \A r \in Keys(s) : \E i \in 1..n : keys[i] = r
  BY <1>6, Zenon, ZenonT(60) DEF Surjection
<1>8. Len(keys) = n
  BY <1>1, <1>3
<1>. QED  BY <1>1, <1>3, <1>7, <1>8, Zenon, ZenonT(60) DEF IsInjective

\* A request is about the key it was made for, and keys of different servers differ.
LEMMA RequestKey ==
  ASSUME NEW s \in Servers, NEW r \in Keys(s), NEW p \in Nat, NEW proc \in {1, 2}
  PROVE  /\ KeyOf(Request(s, p, r, proc)) = r
         /\ Request(s, p, r, proc) \in AllRequests
         /\ Request(s, p, r, proc).from = s
         /\ Request(s, p, r, proc).inst = p
         /\ Request(s, p, r, proc).proc = proc
<1>1. PICK e \in Range(Table[s]), n \in Netids : r = <<e, n>>
  BY DEF Keys
<1>2. e = [prog |-> e.prog, vers |-> e.vers]
  BY ServersAssumption
<1>3. KeyOf(Request(s, p, r, proc)) = r
  BY <1>1, <1>2 DEF KeyOf, Request
<1>4. e \in ProgVers
  BY <1>1, Zenon, ZenonT(60) DEF ProgVers
<1>5. Request(s, p, r, proc) =
        [proc |-> proc, from |-> s, inst |-> p, prog |-> e.prog, vers |-> e.vers, netid |-> n]
  BY <1>1 DEF Request
<1>6. Request(s, p, r, proc) \in
        [proc : {1, 2}, from : Servers, inst : Nat, prog : {x.prog : x \in ProgVers},
         vers : {x.vers : x \in ProgVers}, netid : Netids]
  BY <1>4, <1>5
<1>7. Request(s, p, r, proc).from = s
  BY <1>5
<1>. QED  BY <1>3, <1>5, <1>6, <1>7 DEF AllRequests

\* A request is made of its server, its port, its key and its procedure.
LEMMA RequestIs ==
  ASSUME NEW q \in AllRequests PROVE q = Request(q.from, q.inst, KeyOf(q), q.proc)
<1>1. q = [proc |-> q.proc, from |-> q.from, inst |-> q.inst,
           prog |-> q.prog, vers |-> q.vers, netid |-> q.netid]
  BY DEF AllRequests
<1>2. KeyOf(q)[1].prog = q.prog /\ KeyOf(q)[1].vers = q.vers /\ KeyOf(q)[2] = q.netid
  BY DEF KeyOf
<1>. QED  BY <1>1, <1>2 DEF Request

\* Two servers have no key in common.
LEMMA KeyServer ==
  ASSUME NEW s \in Servers, NEW t \in Servers, NEW r \in Keys(s), r \in Keys(t)
  PROVE  s = t
BY ServersAssumption, Zenon, ZenonT(60) DEF Keys

\* What is in Requests(s, p): two requests about each key, the UNSET before the SET.
LEMMA Batch ==
  ASSUME NEW s \in Servers, NEW p \in Nat
  PROVE  IsBatch(s, p, Requests(s, p))
<1>0. PICK q : q = Requests(s, p)
  OBVIOUS
<1>. DEFINE keys == Listed(Keys(s))
            n == Cardinality(Keys(s))
            half(i) == (i + 1) \div 2
            proc(i) == IF i % 2 = 1 THEN 2 ELSE 1
<1>1. /\ n \in Nat /\ keys \in [1..n -> Keys(s)] /\ Len(keys) = n
      /\ \A i, j \in 1..n : keys[i] = keys[j] => i = j
      /\ \A r \in Keys(s) : \E i \in 1..n : keys[i] = r
  BY KeyOrder
<1>. HIDE DEF keys, n
<1>2. \A i \in 1..(2 * n) : half(i) \in 1..n /\ proc(i) \in {1, 2}
  BY <1>1
<1>3. q = [i \in 1..(2 * n) |-> Request(s, p, keys[half(i)], proc(i))]
  BY <1>0, <1>1, Zenon, ZenonT(60) DEF Requests, keys
<1>. HIDE DEF half, proc
<1>4. \A i \in 1..(2 * n) : /\ q[i] = Request(s, p, keys[half(i)], proc(i))
                            /\ keys[half(i)] \in Keys(s)
  BY <1>1, <1>2, <1>3
<1>5. \A i \in 1..(2 * n) : /\ q[i] \in AllRequests /\ KeyOf(q[i]) = keys[half(i)]
                            /\ q[i].from = s /\ q[i].inst = p /\ q[i].proc = proc(i)
  <2>1. TAKE i \in 1..(2 * n)
  <2>2. q[i] = Request(s, p, keys[half(i)], proc(i))
    BY <1>4, Zenon, ZenonT(60)
  <2>3. keys[half(i)] \in Keys(s) /\ proc(i) \in {1, 2}
    BY <1>2, <1>4, Zenon, ZenonT(60)
  <2>. QED  BY <2>2, <2>3, RequestKey
<1>6. q \in Seq(AllRequests) /\ Len(q) = 2 * n /\ DOMAIN q = 1..(2 * n)
  <2>1. q \in [1..(2 * n) -> AllRequests]
    BY <1>3, <1>5
  <2>. QED  BY <1>1, <2>1
<1>7. Ordered(q)
  <2>1. ASSUME NEW i \in 1..(2 * n), NEW j \in 1..(2 * n), i < j, half(i) = half(j)
        PROVE  proc(i) = 2 /\ proc(j) = 1
    BY <1>1, <2>1 DEF half, proc
  <2>2. ASSUME NEW i \in 1..(2 * n), NEW j \in 1..(2 * n), KeyOf(q[i]) = KeyOf(q[j])
        PROVE  half(i) = half(j)
    BY <1>1, <1>2, <1>5, <2>2
  <2>. QED  BY <1>5, <1>6, <2>1, <2>2 DEF Ordered, Before
<1>8. ASSUME NEW r \in Keys(s), NEW pr \in {1, 2}
      PROVE  Request(s, p, r, pr) \in Range(q)
  <2>1. PICK k \in 1..n : keys[k] = r
    BY <1>1, Zenon, ZenonT(60)
  <2>2. /\ 2 * k - 1 \in 1..(2 * n) /\ half(2 * k - 1) = k /\ proc(2 * k - 1) = 2
        /\ 2 * k \in 1..(2 * n) /\ half(2 * k) = k /\ proc(2 * k) = 1
    BY <1>1 DEF half, proc
  <2>3. q[2 * k - 1] = Request(s, p, r, 2) /\ q[2 * k] = Request(s, p, r, 1)
    BY <1>4, <2>1, <2>2, Zenon, ZenonT(60)
  <2>. QED  BY <1>6, <2>2, <2>3, Zenon, ZenonT(60) DEF Range
<1>9. AllOf(s, p, q)
  BY <1>5, <1>6, Zenon, ZenonT(60) DEF AllOf
<1>. QED  BY <1>0, <1>6, <1>7, <1>8, <1>9, Zenon, ZenonT(60) DEF n, IsBatch

-----------------------------------------------------------------------------
(* The requests on their way to rpcbind.                                   *)

\* In an ordered list nothing is there twice.
LEMMA OrderedOnce ==
  ASSUME NEW l \in Seq(AllRequests), Ordered(l),
         NEW i \in DOMAIN l, NEW j \in DOMAIN l, l[i] = l[j]
  PROVE  i = j
<1>1. i \in Nat /\ j \in Nat /\ l[i] \in AllRequests
  OBVIOUS
<1>2. ~Before(l[i], l[i])
  BY <1>1 DEF Before, AllRequests
<1>3. ~(i < j)
  BY <1>2, Zenon, ZenonT(60) DEF Ordered
<1>4. ~(j < i)
  BY <1>2, Zenon, ZenonT(60) DEF Ordered
<1>. QED  BY <1>1, <1>3, <1>4

\* What is left of a list without one entry, the first or any.
LEMMA CutOut ==
  ASSUME NEW S, NEW l \in Seq(S), NEW i \in DOMAIN l, NEW m,
         (i = 1 /\ m = Tail(l)) \/ m = RemoveAt(l, i)
  PROVE  /\ m \in Seq(S) /\ Len(m) = Len(l) - 1
         /\ \A k \in 1..Len(m) : m[k] = l[IF k < i THEN k ELSE k + 1]
<1>. DEFINE a == SubSeq(l, 1, i - 1)
            b == SubSeq(l, i + 1, Len(l))
<1>1. i \in 1..Len(l) /\ Len(l) \in Nat
  OBVIOUS
<1>2. CASE i = 1 /\ m = Tail(l)
  <2>1. l # <<>>
    BY <1>1
  <2>. QED  BY <1>1, <1>2, <2>1
<1>3. CASE m = RemoveAt(l, i)
  <2>1. /\ a \in Seq(S) /\ Len(a) = i - 1
        /\ \A k \in 1..(i - 1) : a[k] = l[k]
    BY <1>1
  <2>2. /\ b \in Seq(S) /\ Len(b) = Len(l) - i
        /\ \A k \in 1..(Len(l) - i) : b[k] = l[i + k]
    BY <1>1
  <2>3. m = a \o b
    BY <1>3, Zenon, ZenonT(60) DEF RemoveAt
  <2>. HIDE DEF a, b
  <2>4. /\ m \in Seq(S) /\ Len(m) = Len(a) + Len(b)
        /\ \A k \in 1..(Len(a) + Len(b)) :
             m[k] = IF k <= Len(a) THEN a[k] ELSE b[k - Len(a)]
    <3>1. a \in Seq(S) /\ b \in Seq(S)
      BY <2>1, <2>2
    <3>. QED  BY <2>3, <3>1
  <2>5. ASSUME NEW k \in 1..(Len(l) - 1) PROVE m[k] = l[IF k < i THEN k ELSE k + 1]
    <3>1. m[k] = IF k <= i - 1 THEN a[k] ELSE b[k - (i - 1)]
      <4>1. Len(a) = i - 1 /\ Len(a) + Len(b) = Len(l) - 1
        BY <1>1, <2>1, <2>2
      <4>2. k \in 1..(Len(a) + Len(b))
        BY <4>1
      <4>3. m[k] = IF k <= Len(a) THEN a[k] ELSE b[k - Len(a)]
        BY <2>4, <4>2, Zenon, ZenonT(60)
      <4>. QED  BY <4>1, <4>3
    <3>2. CASE k < i
      BY <1>1, <2>1, <3>1, <3>2
    <3>3. CASE ~(k < i)
      <4>1. k - (i - 1) \in 1..(Len(l) - i) /\ i + (k - (i - 1)) = k + 1 /\ ~(k <= i - 1)
        BY <1>1, <3>3
      <4>. QED  BY <2>2, <3>1, <3>3, <4>1
    <3>. QED  BY <3>2, <3>3
  <2>6. Len(m) = Len(l) - 1
    BY <1>1, <2>1, <2>2, <2>4
  <2>. QED  BY <2>4, <2>5, <2>6
<1>. QED  BY <1>2, <1>3

\* A request is taken out, from the front or anywhere.
LEMMA Without ==
  ASSUME NEW l \in Seq(AllRequests), Ordered(l), NEW i \in DOMAIN l, NEW m,
         (i = 1 /\ m = Tail(l)) \/ m = RemoveAt(l, i)
  PROVE  /\ m \in Seq(AllRequests) /\ Ordered(m)
         /\ Range(m) = Range(l) \ {l[i]}
<1>1. /\ m \in Seq(AllRequests) /\ Len(m) = Len(l) - 1
      /\ \A k \in 1..Len(m) : m[k] = l[IF k < i THEN k ELSE k + 1]
  BY CutOut
<1>3. i \in 1..Len(l) /\ DOMAIN l = 1..Len(l) /\ DOMAIN m = 1..Len(m) /\ Len(l) \in Nat
  BY <1>1
<1>4. Ordered(m)
  <2>1. SUFFICES ASSUME NEW j \in 1..Len(m), NEW k \in 1..Len(m), j < k,
                        KeyOf(m[j]) = KeyOf(m[k])
                 PROVE  Before(m[j], m[k])
    BY <1>1, <1>3 DEF Ordered
  <2>2. PICK a \in 1..Len(l), b \in 1..Len(l) : a < b /\ m[j] = l[a] /\ m[k] = l[b]
    BY <1>1, <1>3, <2>1
  <2>. QED  BY <1>1, <1>3, <2>1, <2>2, Zenon, SMTT(60) DEF Ordered
<1>5. ASSUME NEW k \in 1..Len(m) PROVE m[k] \in Range(l) \ {l[i]}
  <2>1. PICK a \in 1..Len(l) : a # i /\ m[k] = l[a]
    BY <1>1, <1>3
  <2>2. l[a] # l[i]
    BY <1>1, <1>3, <2>1, OrderedOnce
  <2>. QED  BY <1>1, <1>3, <2>1, <2>2, Zenon, SMTT(60) DEF Range
<1>6. ASSUME NEW a \in 1..Len(l), l[a] # l[i] PROVE l[a] \in Range(m)
  <2>1. PICK k \in 1..Len(m) : m[k] = l[a]
    <3>1. CASE a < i
      BY <1>1, <1>3, <3>1
    <3>2. CASE a > i
      <4>1. a - 1 \in 1..Len(m) /\ m[a - 1] = l[a]
        BY <1>1, <1>3, <3>2
      <4>. QED  BY <4>1
    <3>3. a < i \/ a > i
      BY <1>1, <1>3, <1>6
    <3>. QED  BY <3>1, <3>2, <3>3
  <2>. QED  BY <1>1, <1>3, <2>1 DEF Range
<1>7. Range(m) \subseteq Range(l) \ {l[i]}
  BY <1>1, <1>3, <1>5 DEF Range
<1>8. Range(l) \ {l[i]} \subseteq Range(m)
  BY <1>1, <1>3, <1>6 DEF Range
<1>. QED  BY <1>1, <1>3, <1>4, <1>7, <1>8

\* The requests of a new process, or the first of them, go behind those of older ones.
LEMMA Behind ==
  ASSUME NEW l \in Seq(AllRequests), Ordered(l), NEW s \in Servers, NEW p \in Nat,
         AllOlder(s, p, l), NEW q \in Seq(AllRequests), Ordered(q), AllOf(s, p, q)
  PROVE  /\ l \o q \in Seq(AllRequests) /\ Ordered(l \o q)
         /\ Range(l \o q) = Range(l) \cup Range(q)
<1>1. /\ l \o q \in Seq(AllRequests) /\ Len(l \o q) = Len(l) + Len(q)
      /\ \A i \in 1..Len(l) : (l \o q)[i] = l[i]
      /\ \A i \in 1..Len(q) : (l \o q)[Len(l) + i] = q[i]
      /\ Len(l) \in Nat /\ Len(q) \in Nat
      /\ DOMAIN l = 1..Len(l) /\ DOMAIN q = 1..Len(q)
      /\ DOMAIN (l \o q) = 1..Len(l \o q)
  OBVIOUS
<1>. DEFINE m == l \o q
<1>. HIDE DEF m
<1>2. ASSUME NEW i \in DOMAIN m
      PROVE  \/ i \in DOMAIN l /\ m[i] = l[i]
             \/ \E k \in DOMAIN q : i = Len(l) + k /\ m[i] = q[k]
  <2>1. CASE i <= Len(l)
    BY <1>1, <2>1 DEF m
  <2>2. CASE i > Len(l)
    <3>1. i - Len(l) \in DOMAIN q /\ i = Len(l) + (i - Len(l)) /\ m[i] = q[i - Len(l)]
      BY <1>1, <2>2 DEF m
    <3>. QED  BY <3>1, Zenon, ZenonT(60)
  <2>. QED  BY <1>1, <2>1, <2>2 DEF m
<1>3. Ordered(m)
  <2>1. SUFFICES ASSUME NEW i \in DOMAIN m, NEW j \in DOMAIN m, i < j,
                        KeyOf(m[i]) = KeyOf(m[j])
                 PROVE  Before(m[i], m[j])
    BY Zenon, ZenonT(60) DEF Ordered
  <2>2. CASE i \in DOMAIN l /\ j \in DOMAIN l /\ m[i] = l[i] /\ m[j] = l[j]
    BY <2>1, <2>2, Zenon, ZenonT(60) DEF Ordered
  <2>3. ASSUME NEW k \in DOMAIN q, j = Len(l) + k, m[j] = q[k], i \in DOMAIN l, m[i] = l[i]
        PROVE  Before(m[i], m[j])
    <3>1. l[i] \in AllRequests /\ q[k] \in AllRequests
      BY <2>3
    <3>2. l[i].from = q[k].from
      <4>1. KeyOf(l[i]) \in Keys(l[i].from) /\ KeyOf(q[k]) \in Keys(q[k].from)
        BY <3>1, Zenon, ZenonT(60) DEF AllRequests
      <4>2. l[i].from \in Servers /\ q[k].from \in Servers
        BY <3>1 DEF AllRequests
      <4>. QED  BY <2>1, <2>3, <4>1, <4>2, KeyServer, Zenon, ZenonT(60)
    <3>. QED  BY <2>3, <3>2 DEF Before, AllOf, AllOlder
  <2>4. ASSUME NEW k \in DOMAIN q, i = Len(l) + k, m[i] = q[k],
               NEW n \in DOMAIN q, j = Len(l) + n, m[j] = q[n]
        PROVE  Before(m[i], m[j])
    <3>1. k < n
      BY <1>1, <2>1, <2>4
    <3>. QED  BY <2>1, <2>4, <3>1, Zenon, ZenonT(60) DEF Ordered
  <2>5. ASSUME NEW k \in DOMAIN q, i = Len(l) + k, j \in DOMAIN l PROVE FALSE
    BY <1>1, <2>1, <2>5
  <2>. QED  BY <1>2, <2>2, <2>3, <2>4, <2>5, Zenon, ZenonT(60)
<1>4. Range(m) \subseteq Range(l) \cup Range(q)
  BY <1>2, Zenon, ZenonT(60) DEF Range
<1>5. Range(l) \subseteq Range(m)
  BY <1>1 DEF Range, m
<1>6. Range(q) \subseteq Range(m)
  <2>1. \A k \in DOMAIN q : Len(l) + k \in DOMAIN m /\ m[Len(l) + k] = q[k]
    BY <1>1 DEF m
  <2>. QED  BY <2>1, Zenon, ZenonT(60) DEF Range
<1>. QED  BY <1>1, <1>3, <1>4, <1>5, <1>6 DEF m

-----------------------------------------------------------------------------
(* The inductive invariant of the registrations.                           *)

\* What the table t has for the key r.
Lookup(t, r) == map_lookup(t, r[1].prog, r[1].vers, r[2])

\* The port of the process of s that runs, or that was started last.
Current(s) == Port(s, srv[s].starts)

\* The requests on their way about the key r, and those of the current process of s.
Pending(r) == {q \in Range(reqs) : KeyOf(q) = r}
Out(s) == {q \in Range(reqs) : q.from = s /\ q.inst = Current(s)}

\* The key r is registered, and nothing on its way can change that.
Settled(s, r) ==
  /\ Pending(r) = {}
  /\ Lookup(map, r) = {Mapping(r[1].prog, r[1].vers, r[2], Current(s))}

\* Where the two requests of the current process about the key r are: both on their way;
\* the UNSET was served, and no older request is left; the SET was served.
OnItsWay(s, r) ==
  \/ {Request(s, Current(s), r, 2), Request(s, Current(s), r, 1)} \subseteq Pending(r)
  \/ Pending(r) = {Request(s, Current(s), r, 1)} /\ Lookup(map, r) = {}
  \/ Settled(s, r)

TypeRequests ==
  /\ srv \in [Servers -> [pc : {"down", "registering", "started"},
                          starts : Nat, num_wait : Nat]]
  /\ acks \in [Servers -> Nat]
  /\ reqs \in Seq(AllRequests)

TypeTable ==
  /\ \A m \in map \cup db : m.netid \in Known
  /\ owed \in BOOLEAN /\ up \in BOOLEAN /\ undefined \in BOOLEAN

\* No request is of a process yet to be started.
NoneNewer == \A q \in Range(reqs) : q.inst <= Current(q.from)

\* Each answer that a server waits for is on its way, asked for, or lost.
Counted(s) ==
  /\ srv[s].pc # "registering" => srv[s].num_wait = 0 /\ acks[s] = 0
  /\ srv[s].num_wait <= 2 * Cardinality(Keys(s))
  /\ srv[s].pc = "registering" => Cardinality(Out(s)) + acks[s] <= srv[s].num_wait

\* As long as none was lost, every key is on its way; in the end all are registered.
Registered(s) ==
  /\ srv[s].pc = "registering" /\ Cardinality(Out(s)) + acks[s] = srv[s].num_wait =>
       \A r \in Keys(s) : r \in lost \/ OnItsWay(s, r)
  /\ srv[s].pc = "started" => \A r \in Keys(s) : r \in lost \/ Settled(s, r)

\* What a dead rpcbind did not have on file is in lost.
LostRight ==
  ~up => \A r \in ProgVers \X Known : r \in lost \/ Lookup(map, r) = Lookup(db, r)

IInv ==
  /\ TypeRequests /\ TypeTable
  /\ Ordered(reqs) /\ NoneNewer
  /\ LostRight
  /\ \A s \in Servers : Counted(s) /\ Registered(s)

\* The requests on their way are finitely many.
LEMMA RangeFinite ==
  ASSUME NEW S, NEW l \in Seq(S)
  PROVE  IsFiniteSet(Range(l)) /\ Cardinality(Range(l)) <= Len(l)
<1>1. Len(l) \in Nat /\ l \in [1..Len(l) -> Range(l)]
  BY DEF Range
<1>2. \A x \in Range(l) : \E i \in 1..Len(l) : l[i] = x
  BY DEF Range
<1>3. l \in Surjection(1..Len(l), Range(l))
  BY <1>1, <1>2, Zenon, ZenonT(60) DEF Surjection
<1>4. IsFiniteSet(1..Len(l)) /\ Cardinality(1..Len(l)) = Len(l)
  BY <1>1, FS_Interval
<1>. QED  BY <1>3, <1>4, FS_Surjection

\* What is in a list has the type of its entries.
LEMMA RangeIn == ASSUME NEW S, NEW l \in Seq(S), NEW x \in Range(l) PROVE x \in S
BY DEF Range

\* The requests of a process that are on their way are finitely many, and so are fewer of
\* them.
LEMMA OutFinite ==
  ASSUME TypeRequests, NEW s \in Servers, NEW T, T \subseteq Out(s)
  PROVE  /\ IsFiniteSet(T) /\ Cardinality(T) \in Nat /\ Cardinality(Out(s)) \in Nat
         /\ Cardinality(T) <= Cardinality(Out(s))
         /\ Cardinality(T) = Cardinality(Out(s)) => T = Out(s)
<1>1. IsFiniteSet(Range(reqs))
  BY RangeFinite DEF TypeRequests
<1>2. IsFiniteSet(Out(s))
  BY <1>1, FS_Subset DEF Out
<1>3. T \in SUBSET Out(s)
  OBVIOUS
<1>. QED  BY <1>2, <1>3, FS_Subset, FS_CardinalityType

\* The port of a process is a number, and a new process has a higher one.
LEMMA CurrentPort ==
  ASSUME TypeRequests, NEW s \in Servers
  PROVE  /\ Current(s) \in Nat /\ srv[s].starts \in Nat
         /\ Port(s, srv[s].starts + 1) \in Nat /\ Current(s) < Port(s, srv[s].starts + 1)
<1>1. srv[s].starts \in Nat
  BY DEF TypeRequests
<1>2. PortBase[s] \in Nat
  BY ServersAssumption
<1>. QED  BY <1>1, <1>2 DEF Current, Port

\* The keys of the servers are among those that RpcbindDies looks up.
LEMMA KeysLooked == ASSUME NEW s \in Servers PROVE Keys(s) \subseteq ProgVers \X Known
BY Zenon, ZenonT(60) DEF Keys, ProgVers, Netids

\* Losing requests or answers, and what does not concern the server, keep its part of the
\* invariant: a lost request or answer is one the server waits for in vain.
LEMMA LossStep ==
  ASSUME TypeRequests, TypeRequests', NEW s \in Servers, Counted(s), Registered(s),
         srv'[s] = srv[s], acks'[s] <= acks[s], Out(s)' \subseteq Out(s), lost \subseteq lost',
         \A r \in Keys(s) : Pending(r)' \subseteq Pending(r),
         \A r \in Keys(s) : r \in lost' \/ Lookup(map', r) = Lookup(map, r)
  PROVE  Counted(s)' /\ Registered(s)'
<1>1. /\ Cardinality(Out(s)') \in Nat /\ Cardinality(Out(s)) \in Nat
      /\ Cardinality(Out(s)') <= Cardinality(Out(s))
      /\ Cardinality(Out(s)') = Cardinality(Out(s)) => Out(s)' = Out(s)
  BY OutFinite
<1>2. /\ acks[s] \in Nat /\ acks'[s] \in Nat /\ srv[s].num_wait \in Nat
      /\ Current(s)' = Current(s) /\ Current(s) \in Nat
  BY CurrentPort DEF TypeRequests, Current, Port
<1>3. Keys(s)' = Keys(s) /\ Cardinality(Keys(s)) \in Nat
  BY KeysFinite DEF Keys, Netids
<1>4. Counted(s)'
  BY <1>1, <1>2, <1>3 DEF Counted
<1>5. ASSUME NEW r \in Keys(s), r \notin lost', Settled(s, r) PROVE Settled(s, r)'
  BY <1>2, <1>5 DEF Settled, Lookup
<1>6. ASSUME srv'[s].pc = "registering",
             Cardinality(Out(s)') + acks'[s] = srv'[s].num_wait,
             NEW r \in Keys(s), r \notin lost'
      PROVE  OnItsWay(s, r)'
  <2>1. Out(s)' = Out(s) /\ Cardinality(Out(s)) + acks[s] = srv[s].num_wait
    BY <1>1, <1>2, <1>6 DEF Counted
  <2>2. OnItsWay(s, r)
    BY <1>6, <2>1 DEF Registered
  <2>3. ASSUME NEW proc \in {1, 2}, Request(s, Current(s), r, proc) \in Pending(r)
        PROVE  Request(s, Current(s), r, proc) \in Pending(r)'
    <3>1. /\ Request(s, Current(s), r, proc).from = s
          /\ Request(s, Current(s), r, proc).inst = Current(s)
          /\ KeyOf(Request(s, Current(s), r, proc)) = r
      BY <1>2, RequestKey
    <3>2. Request(s, Current(s), r, proc) \in Out(s)
      BY <2>3, <3>1 DEF Pending, Out
    <3>. QED  BY <2>1, <3>1, <3>2 DEF Pending, Out
  <2>4. CASE {Request(s, Current(s), r, 2), Request(s, Current(s), r, 1)} \subseteq Pending(r)
    BY <1>2, <2>3, <2>4 DEF OnItsWay
  <2>5. CASE Pending(r) = {Request(s, Current(s), r, 1)} /\ Lookup(map, r) = {}
    <3>1. Pending(r)' = {Request(s, Current(s), r, 1)}
      BY <2>3, <2>5
    <3>2. Lookup(map', r) = {}
      BY <1>6, <2>5
    <3>. QED  BY <1>2, <3>1, <3>2 DEF OnItsWay, Lookup
  <2>6. CASE Settled(s, r)
    BY <1>5, <1>6, <2>6 DEF OnItsWay
  <2>. QED  BY <2>2, <2>4, <2>5, <2>6 DEF OnItsWay
<1>7. ASSUME srv'[s].pc = "started", NEW r \in Keys(s), r \notin lost' PROVE Settled(s, r)'
  BY <1>5, <1>7 DEF Registered
<1>8. Registered(s)'
  BY <1>3, <1>6, <1>7 DEF Registered
<1>. QED  BY <1>4, <1>8

-----------------------------------------------------------------------------
(* What the steps of rpcbind do to the registrations of the servers.       *)

\* A client of rpcbind registers and removes only programs of its own.
LEMMA ClientArgs ==
  ASSUME NEW x \in UdpCalls \cup TcpCalls, x.call.proc \in {1, 2}
  PROVE  /\ x.args.prog \in UserProgs
         /\ x.call.proc = 1 => Netid2(x.args.netid) = "udp"
         /\ x.call.proc = 1 /\ x.call.vers > 2 => x.args.netid = "udp"
<1>1. PICK call \in Calls : \E a \in Args(call) : x = [call |-> call, args |-> a]
  BY Zenon, ZenonT(60) DEF UdpCalls, TcpCalls, ServedCalls
<1>2. PICK a \in Args(call) : x = [call |-> call, args |-> a]
  BY <1>1
<1>3. PICK k \in ArgKeys(call), n \in ArgNetids(call) :
        \E p : a = [prog |-> k.prog, vers |-> k.vers, netid |-> n, proc |-> p, port |-> 0]
  BY DEF Args
<1>4. x.call = call /\ x.args.prog = k.prog /\ x.args.netid = n
  BY <1>2, <1>3
<1>5. k \in [prog : UserProgs, vers : {1}]
  BY <1>4 DEF ArgKeys
<1>6. call.proc = 1 => n = IF call.vers = 2 THEN "UDP" ELSE "udp"
  BY DEF ArgNetids
<1>. QED  BY <1>4, <1>5, <1>6 DEF Netid2

\* So the keys of the servers are as they were, and netids are those of the instance.
LEMMA ClientStep ==
  ASSUME NEW c \in Clients, ServeClient(c), TypeTable
  PROVE  /\ TypeTable' /\ up /\ up'
         /\ \A s \in Servers : \A r \in Keys(s) : Lookup(map', r) = Lookup(map, r)
         /\ UNCHANGED <<srv, reqs, acks, lost>>
<1>1. up /\ UNCHANGED <<srv, reqs, acks, lost>>
  BY Zenon, ZenonT(60) DEF ServeClient, Idle
<1>2. \A s \in Servers : \A r \in Keys(s) : r[1].prog \notin UserProgs
  BY ServersAssumption DEF Keys
<1>3. CASE UNCHANGED bindvars
  BY <1>1, <1>3, Zenon, ZenonT(60) DEF bindvars, TypeTable
<1>4. ASSUME NEW x \in UdpCalls \cup TcpCalls, NEW a,
             a = [x.args EXCEPT !.port = Port(c, 1)],
             Procedure(c, x.call.vers, x.call.proc, a)
      PROVE  /\ TypeTable' /\ up'
             /\ \A s \in Servers : \A r \in Keys(s) : Lookup(map', r) = Lookup(map, r)
  <2>1. a.prog = x.args.prog /\ a.netid = x.args.netid
    <3>1. PICK call \in Calls : \E b \in Args(call) : x = [call |-> call, args |-> b]
      BY Zenon, ZenonT(60) DEF UdpCalls, TcpCalls, ServedCalls
    <3>2. PICK b \in Args(call) : x = [call |-> call, args |-> b]
      BY <3>1
    <3>3. \E k, n, p :
            b = [prog |-> k.prog, vers |-> k.vers, netid |-> n, proc |-> p, port |-> 0]
      BY DEF Args
    <3>. QED  BY <1>4, <3>2, <3>3
  <2>2. ASSUME NEW v, NEW n, NEW q, n \in Known, a.prog \in UserProgs,
               Set(c, "set", Mapping(a.prog, v, n, q))
        PROVE  /\ TypeTable' /\ up'
               /\ \A s \in Servers : \A r \in Keys(s) : Lookup(map', r) = Lookup(map, r)
    <3>. DEFINE item == Mapping(a.prog, v, n, q)
    <3>1. item.prog = a.prog /\ item.netid = n
      BY DEF Mapping
    <3>2. /\ map' = map \/ map' = map \cup {item}
          /\ owed' = owed \/ owed' = TRUE
          /\ db' = db /\ up' = up /\ undefined' = undefined
      BY <2>2, Zenon, ZenonT(60) DEF Set, pmap_register
    <3>. HIDE DEF item
    <3>3. TypeTable' /\ up'
      BY <1>1, <2>2, <3>1, <3>2, Zenon, ZenonT(60) DEF TypeTable
    <3>4. ASSUME NEW r, r[1].prog \notin UserProgs PROVE Lookup(map', r) = Lookup(map, r)
      BY <2>2, <3>1, <3>2, <3>4 DEF Lookup, map_lookup
    <3>. QED  BY <1>2, <3>3, <3>4
  <2>3. ASSUME NEW v, NEW n, a.prog \in UserProgs, Unset(c, "unset", a.prog, v, n)
        PROVE  /\ TypeTable' /\ up'
               /\ \A s \in Servers : \A r \in Keys(s) : Lookup(map', r) = Lookup(map, r)
    <3>1. /\ map' = map_remove(map, a.prog, v, n) /\ owed' = TRUE
          /\ db' = db /\ up' = up /\ undefined' = undefined
      BY <2>3, Zenon, ZenonT(60) DEF Unset
    <3>2. TypeTable' /\ up'
      BY <1>1, <3>1, Zenon, ZenonT(60) DEF TypeTable, map_remove
    <3>3. ASSUME NEW r, r[1].prog \notin UserProgs PROVE Lookup(map', r) = Lookup(map, r)
      BY <2>3, <3>1, <3>3 DEF Lookup, map_lookup, map_remove
    <3>. QED  BY <1>2, <3>2, <3>3
  <2>4. \/ UNCHANGED <<map, db, owed, up, undefined>>
        \/ /\ x.call.proc = 1 /\ x.call.vers = 2
           /\ Set(c, "set", Mapping(a.prog, a.vers, Netid2(a.netid), a.port))
        \/ /\ x.call.proc = 1 /\ x.call.vers > 2
           /\ Set(c, "set", Mapping(a.prog, a.vers, a.netid, a.port))
        \/ /\ x.call.proc = 2
           /\ \E n : Unset(c, "unset", a.prog, a.vers, n)
    BY <1>4, Zenon, ZenonT(60)
         DEF Procedure, Stateless, pmap2_set_proc, pmap3_set_proc, pmap2_unset_proc,
         pmap3_unset_proc, pmap2_getport_proc, pmap3_getaddr_proc, pmap2_dump_proc,
         pmap3_dump_proc, Dump, pmapX_callit_proc
  <2>5. CASE UNCHANGED <<map, db, owed, up, undefined>>
    BY <1>1, <2>5, Zenon, ZenonT(60) DEF TypeTable
  <2>6. CASE /\ x.call.proc = 1 /\ x.call.vers = 2
             /\ Set(c, "set", Mapping(a.prog, a.vers, Netid2(a.netid), a.port))
    <3>1. a.prog \in UserProgs /\ Netid2(a.netid) \in Known
      BY <2>1, <2>6, ClientArgs, ServersAssumption
    <3>. QED  BY <2>2, <2>6, <3>1, Zenon, ZenonT(60)
  <2>7. CASE /\ x.call.proc = 1 /\ x.call.vers > 2
             /\ Set(c, "set", Mapping(a.prog, a.vers, a.netid, a.port))
    <3>1. a.prog \in UserProgs /\ a.netid \in Known
      BY <2>1, <2>7, ClientArgs, ServersAssumption
    <3>. QED  BY <2>2, <2>7, <3>1, Zenon, ZenonT(60)
  <2>8. CASE x.call.proc = 2 /\ \E n : Unset(c, "unset", a.prog, a.vers, n)
    <3>1. a.prog \in UserProgs
      BY <2>1, <2>8, ClientArgs
    <3>. QED  BY <2>3, <2>8, <3>1, Zenon, ZenonT(60)
  <2>. QED  BY <2>4, <2>5, <2>6, <2>7, <2>8, Zenon, ZenonT(60)
<1>. QED  BY <1>1, <1>3, <1>4, Zenon, ZenonT(60) DEF ServeClient, bindvars

\* Serving a request changes what is registered for its key and for no other.
LEMMA ServeLookup ==
  ASSUME TypeRequests, TypeTable, ServeRequest, NEW q, q = reqs[1]
  PROVE  /\ up /\ up' /\ TypeTable' /\ reqs # <<>> /\ q \in AllRequests
         /\ \A r \in Keys(q.from) :
              /\ r = KeyOf(q) /\ q.proc = 2 => Lookup(map', r) = {}
              /\ r = KeyOf(q) /\ q.proc = 1 /\ Lookup(map, r) = {} =>
                   Lookup(map', r) = {Mapping(r[1].prog, r[1].vers, r[2], q.inst)}
         /\ \A s \in Servers : \A r \in Keys(s) : r # KeyOf(q) => Lookup(map', r) = Lookup(map, r)
<1>. DEFINE a == [prog |-> q.prog, vers |-> q.vers, netid |-> q.netid, port |-> q.inst]
<1>1. reqs # <<>> /\ Procedure(q.from, 4, q.proc, a)
  BY Zenon, ZenonT(60) DEF ServeRequest
<1>2. q \in AllRequests
  BY <1>1 DEF TypeRequests
<1>3. q.proc \in {1, 2} /\ q.netid \in Netids /\ q.netid # "" /\ q.netid \in Known
  BY <1>2, ServersAssumption DEF AllRequests, Netids
<1>4. /\ a.prog = q.prog /\ a.vers = q.vers /\ a.netid = q.netid /\ a.port = q.inst
  OBVIOUS
<1>. HIDE DEF a
<1>5. /\ q.proc = 1 => Set(q.from, "set", Mapping(q.prog, q.vers, q.netid, q.inst))
      /\ q.proc = 2 => Unset(q.from, "unset", q.prog, q.vers, q.netid)
  <2>1. /\ q.proc = 1 => pmap3_set_proc(q.from, a.prog, a.vers, a.netid, a.port)
        /\ q.proc = 2 => pmap3_unset_proc(q.from, a.prog, a.vers, a.netid)
    <3>1. ASSUME NEW n \in {1, 2}, n = q.proc
          PROVE  /\ n \notin {0, 6, 7, 8} /\ n # 3 /\ n # 4 /\ n # 5 /\ ~(n = 1 /\ n = 2)
                 /\ 4 # 2 /\ 4 > 2
      OBVIOUS
    <3>. QED  BY <1>1, <1>3, <3>1, Zenon, ZenonT(60) DEF Procedure
  <2>. QED  BY <1>4, <2>1, Zenon, ZenonT(60) DEF pmap3_set_proc, pmap3_unset_proc
<1>6. ASSUME NEW s \in Servers, NEW r \in Keys(s)
      PROVE  \E e, n : r = <<e, n>> /\ e = [prog |-> e.prog, vers |-> e.vers]
  <2>1. PICK e \in Range(Table[s]), n \in Netids : r = <<e, n>>
    BY DEF Keys
  <2>2. e = [prog |-> e.prog, vers |-> e.vers]
    BY ServersAssumption
  <2>. QED  BY <2>1, <2>2, Zenon, ZenonT(60)
<1>7. KeyOf(q)[1].prog = q.prog /\ KeyOf(q)[1].vers = q.vers /\ KeyOf(q)[2] = q.netid
  BY DEF KeyOf
<1>8. ASSUME NEW s \in Servers, NEW r \in Keys(s), r # KeyOf(q)
      PROVE  r[1].prog # q.prog \/ r[1].vers # q.vers \/ r[2] # q.netid
  <2>1. PICK e, n : r = <<e, n>> /\ e = [prog |-> e.prog, vers |-> e.vers]
    BY <1>6
  <2>. QED  BY <1>8, <2>1 DEF KeyOf
<1>9. CASE q.proc = 1
  <2>. DEFINE item == Mapping(q.prog, q.vers, q.netid, q.inst)
  <2>1. item.prog = q.prog /\ item.vers = q.vers /\ item.netid = q.netid
    BY DEF Mapping
  <2>2. Set(q.from, "set", item)
    BY <1>5, <1>9
  <2>. HIDE DEF item
  <2>3. /\ up /\ db' = db /\ up' = up /\ undefined' = undefined
        /\ map' = map \/ map' = map \cup {item}
        /\ owed' = owed \/ owed' = TRUE
        /\ map_lookup(map, q.prog, q.vers, q.netid) = {} => map' = map \cup {item}
    BY <2>1, <2>2, Zenon, ZenonT(60) DEF Set, Idle, pmap_register
  <2>4. up' /\ TypeTable'
    BY <1>3, <2>1, <2>3, Zenon, ZenonT(60) DEF TypeTable
  <2>5. ASSUME NEW r, r[1].prog # q.prog \/ r[1].vers # q.vers \/ r[2] # q.netid
        PROVE  Lookup(map', r) = Lookup(map, r)
    BY <2>1, <2>3, <2>5 DEF Lookup, map_lookup
  <2>6. Lookup(map, KeyOf(q)) = {} => Lookup(map', KeyOf(q)) = {item}
    BY <1>7, <2>1, <2>3 DEF Lookup, map_lookup
  <2>7. item = Mapping(KeyOf(q)[1].prog, KeyOf(q)[1].vers, KeyOf(q)[2], q.inst)
    BY <1>7 DEF item
  <2>. QED  BY <1>1, <1>2, <1>8, <1>9, <2>3, <2>4, <2>5, <2>6, <2>7
<1>10. CASE q.proc = 2
  <2>1. /\ up /\ db' = db /\ up' = up /\ undefined' = undefined /\ owed' = TRUE
        /\ map' = map_remove(map, q.prog, q.vers, q.netid)
    BY <1>5, <1>10, Zenon, ZenonT(60) DEF Unset, Idle
  <2>2. up' /\ TypeTable'
    BY <2>1, Zenon, ZenonT(60) DEF TypeTable, map_remove
  <2>3. ASSUME NEW r, r[1].prog # q.prog \/ r[1].vers # q.vers \/ r[2] # q.netid
        PROVE  Lookup(map', r) = Lookup(map, r)
    BY <1>3, <2>1, <2>3 DEF Lookup, map_lookup, map_remove
  <2>4. Lookup(map', KeyOf(q)) = {}
    BY <1>7, <2>1 DEF Lookup, map_lookup, map_remove
  <2>. QED  BY <1>1, <1>2, <1>8, <1>10, <2>1, <2>2, <2>3, <2>4
<1>. QED  BY <1>3, <1>9, <1>10

\* The steps that change nothing of what the invariant speaks of but the table, which
\* keeps the keys that are not lost.
LEMMA OthersKeep ==
  ASSUME IInv, UNCHANGED <<srv, acks, reqs>>, lost \subseteq lost', TypeTable', LostRight',
         \A s \in Servers : \A r \in Keys(s) : r \in lost' \/ Lookup(map', r) = Lookup(map, r)
  PROVE  IInv'
<1>1. TypeRequests' /\ Ordered(reqs)' /\ NoneNewer'
  BY Zenon, ZenonT(60)
       DEF IInv, TypeRequests, AllRequests, KeyOf, Keys, Netids, Ordered, Before, NoneNewer,
       Current, Port
<1>2. ASSUME NEW s \in Servers PROVE Counted(s)' /\ Registered(s)'
  <2>1. Out(s)' = Out(s) /\ \A r \in Keys(s) : Pending(r)' = Pending(r)
    BY DEF Out, Pending, Current
  <2>2. srv'[s] = srv[s] /\ acks'[s] <= acks[s]
    BY DEF IInv, TypeRequests
  <2>. QED  BY <1>1, <2>1, <2>2, LossStep DEF IInv
<1>. QED  BY <1>1, <1>2 DEF IInv

-----------------------------------------------------------------------------
(* Every step preserves the invariant.                                     *)

\* One request fewer: what is left of the list, and of what is on its way.
LEMMA OneLess ==
  ASSUME IInv, NEW i \in DOMAIN reqs, srv' = srv,
         (i = 1 /\ reqs' = Tail(reqs)) \/ reqs' = RemoveAt(reqs, i)
  PROVE  /\ reqs' \in Seq(AllRequests) /\ Ordered(reqs)' /\ NoneNewer'
         /\ \A s \in Servers : Out(s)' = Out(s) \ {reqs[i]}
         /\ \A r : Pending(r)' = Pending(r) \ {reqs[i]}
<1>1. reqs \in Seq(AllRequests) /\ Ordered(reqs) /\ NoneNewer
  BY DEF IInv, TypeRequests
<1>2. /\ reqs' \in Seq(AllRequests) /\ Ordered(reqs')
      /\ Range(reqs') = Range(reqs) \ {reqs[i]}
  BY <1>1, Without
<1>3. \A s : Current(s)' = Current(s)
  BY DEF Current, Port
<1>4. NoneNewer'
  BY <1>1, <1>2, <1>3 DEF NoneNewer
<1>5. \A s \in Servers : Out(s)' = Out(s) \ {reqs[i]}
  BY <1>2, <1>3 DEF Out
<1>6. \A r : Pending(r)' = Pending(r) \ {reqs[i]}
  BY <1>2 DEF Pending, KeyOf
<1>7. Ordered(reqs)'
  BY <1>2, Zenon, ZenonT(60) DEF Ordered, Before, KeyOf
<1>. QED  BY <1>2, <1>4, <1>5, <1>6, <1>7

\* A request is lost.
LEMMA LoseRequestStep == ASSUME IInv, LoseRequest PROVE IInv'
<1>1. PICK i \in DOMAIN reqs : reqs' = RemoveAt(reqs, i)
  BY Zenon, ZenonT(60) DEF LoseRequest
<1>2. UNCHANGED <<map, db, owed, up, undefined, srv, acks, lost>>
  BY Zenon, ZenonT(60) DEF LoseRequest, bindvars
<1>3. /\ reqs' \in Seq(AllRequests) /\ Ordered(reqs)' /\ NoneNewer'
      /\ \A s \in Servers : Out(s)' \subseteq Out(s)
      /\ \A r : Pending(r)' \subseteq Pending(r)
  BY <1>1, <1>2, OneLess
<1>4. TypeRequests'
  BY <1>2, <1>3 DEF IInv, TypeRequests, AllRequests, KeyOf, Keys, Netids
<1>5. TypeTable' /\ LostRight'
  BY <1>2, Zenon, ZenonT(60) DEF IInv, TypeTable, LostRight, Lookup, map_lookup
<1>6. ASSUME NEW s \in Servers PROVE Counted(s)' /\ Registered(s)'
  <2>1. srv'[s] = srv[s] /\ acks'[s] <= acks[s]
    BY <1>2 DEF IInv, TypeRequests
  <2>2. \A r \in Keys(s) : r \in lost' \/ Lookup(map', r) = Lookup(map, r)
    BY <1>2
  <2>. QED  BY <1>2, <1>3, <1>4, <2>1, <2>2, LossStep DEF IInv
<1>. QED  BY <1>3, <1>4, <1>5, <1>6 DEF IInv

\* An answer is lost.
LEMMA LoseReplyStep == ASSUME IInv, LoseReply PROVE IInv'
<1>1. PICK t \in Servers : acks[t] > 0 /\ acks' = [acks EXCEPT ![t] = @ - 1]
  BY Zenon, ZenonT(60) DEF LoseReply
<1>2. UNCHANGED <<map, db, owed, up, undefined, srv, reqs, lost>>
  BY Zenon, ZenonT(60) DEF LoseReply, bindvars
<1>3. acks \in [Servers -> Nat]
  BY DEF IInv, TypeRequests
<1>4. acks' \in [Servers -> Nat] /\ \A s \in Servers : acks'[s] <= acks[s]
  BY <1>1, <1>3
<1>5. TypeRequests'
  BY <1>2, <1>4, Zenon, ZenonT(60) DEF IInv, TypeRequests, AllRequests, KeyOf, Keys, Netids
<1>6. TypeTable' /\ LostRight' /\ Ordered(reqs)' /\ NoneNewer'
  BY <1>2, Zenon, ZenonT(60)
       DEF IInv, TypeTable, LostRight, Lookup, map_lookup, Ordered, Before, KeyOf,
       NoneNewer, Current, Port
<1>7. ASSUME NEW s \in Servers PROVE Counted(s)' /\ Registered(s)'
  <2>1. Out(s)' = Out(s) /\ \A r \in Keys(s) : Pending(r)' = Pending(r)
    BY <1>2 DEF Out, Pending, Current
  <2>. QED  BY <1>2, <1>4, <1>5, <2>1, LossStep DEF IInv
<1>. QED  BY <1>5, <1>6, <1>7 DEF IInv

\* rpcbind dies: the requests are gone, and what is not on file is lost.
LEMMA DiesStep == ASSUME IInv, RpcbindDies PROVE IInv'
<1>1. /\ UNCHANGED <<map, db, srv, acks, undefined>> /\ reqs' = <<>>
      /\ up' = FALSE /\ owed' = FALSE
      /\ lost' = lost \cup {r \in ProgVers \X Known : Lookup(map, r) # Lookup(db, r)}
  BY Zenon, ZenonT(60) DEF RpcbindDies, Die, Lookup
<1>2. TypeRequests' /\ TypeTable'
  <2>1. TypeRequests'
    BY <1>1 DEF IInv, TypeRequests
  <2>2. TypeTable'
    BY <1>1, Zenon, ZenonT(60) DEF IInv, TypeTable
  <2>. QED  BY <2>1, <2>2
<1>3. LostRight'
  BY <1>1, Zenon, ZenonT(60) DEF LostRight, Lookup, map_lookup, ProgVers
<1>4. Range(reqs') = {}
  BY <1>1 DEF Range
<1>5. Ordered(reqs)' /\ NoneNewer'
  BY <1>1, <1>4 DEF Ordered, NoneNewer
<1>6. ASSUME NEW s \in Servers PROVE Counted(s)' /\ Registered(s)'
  <2>1. Out(s)' = {} /\ \A r \in Keys(s) : Pending(r)' = {}
    BY <1>4 DEF Out, Pending
  <2>2. srv'[s] = srv[s] /\ acks'[s] <= acks[s]
    BY <1>1 DEF IInv, TypeRequests
  <2>3. \A r \in Keys(s) : r \in lost' \/ Lookup(map', r) = Lookup(map, r)
    BY <1>1
  <2>. QED  BY <1>1, <1>2, <2>1, <2>2, <2>3, LossStep DEF IInv
<1>. QED  BY <1>2, <1>3, <1>5, <1>6 DEF IInv

\* rpcbind restarts: what it finds on file is what was not lost.
LEMMA RestartStep == ASSUME IInv, RpcbindRestarts PROVE IInv'
<1>1. /\ ~up /\ up' = TRUE /\ map' = db /\ undefined' = FALSE
      /\ UNCHANGED <<db, owed, srv, reqs, acks, lost>>
  BY ReadDb, Zenon, ZenonT(60) DEF RpcbindRestarts, Restart
<1>2. TypeTable' /\ LostRight'
  BY <1>1, Zenon, ZenonT(60) DEF IInv, TypeTable, LostRight
<1>3. ASSUME NEW s \in Servers, NEW r \in Keys(s)
      PROVE  r \in lost' \/ Lookup(map', r) = Lookup(map, r)
  <2>1. r \in ProgVers \X Known
    BY KeysLooked, Zenon, ZenonT(60)
  <2>2. r \in lost \/ Lookup(map, r) = Lookup(db, r)
    BY <1>1, <2>1, Zenon, ZenonT(60) DEF IInv, LostRight
  <2>. QED  BY <1>1, <2>2, Zenon, ZenonT(60)
<1>. QED  BY <1>1, <1>2, <1>3, OthersKeep, Zenon, ZenonT(60)

\* A call of a client of rpcbind.
LEMMA ClientKeeps == ASSUME IInv, NEW c \in Clients, ServeClient(c) PROVE IInv'
<1>1. TypeTable
  BY DEF IInv
<1>2. /\ TypeTable' /\ up'
      /\ \A s \in Servers : \A r \in Keys(s) : Lookup(map', r) = Lookup(map, r)
      /\ UNCHANGED <<srv, reqs, acks, lost>>
  BY <1>1, ClientStep, Zenon, ZenonT(60)
<1>3. LostRight'
  BY <1>2, Zenon, ZenonT(60) DEF LostRight
<1>. QED  BY <1>2, <1>3, OthersKeep, Zenon, ZenonT(60)

\* The oldest request is served.  Of the current process of its server it is the next one
\* about its key: the UNSET when both are on their way, the SET when the key is free.
LEMMA ServeRequestStep == ASSUME IInv, ServeRequest PROVE IInv'
<1>1. TypeRequests /\ TypeTable /\ NoneNewer /\ Ordered(reqs)
  BY DEF IInv
<1>2. PICK q, t, k : q = reqs[1] /\ t = q.from /\ k = KeyOf(q)
  OBVIOUS
<1>3. /\ up' /\ TypeTable' /\ reqs # <<>> /\ q \in AllRequests
      /\ \A r \in Keys(t) :
           /\ r = k /\ q.proc = 2 => Lookup(map', r) = {}
           /\ r = k /\ q.proc = 1 /\ Lookup(map, r) = {} =>
                Lookup(map', r) = {Mapping(r[1].prog, r[1].vers, r[2], q.inst)}
      /\ \A s \in Servers : \A r \in Keys(s) : r # k => Lookup(map', r) = Lookup(map, r)
  BY <1>1, <1>2, ServeLookup, Zenon, ZenonT(60)
<1>4. /\ reqs' = Tail(reqs) /\ srv' = srv /\ lost' = lost
      /\ acks' = IF srv[t].pc = "registering" /\ q.inst = Current(t)
                 THEN [acks EXCEPT ![t] = @ + 1] ELSE acks
  BY <1>2, Zenon, ZenonT(60) DEF ServeRequest, Current
<1>5. /\ 1 \in DOMAIN reqs /\ t \in Servers /\ k \in Keys(t)
      /\ q.proc \in {1, 2} /\ q.inst \in Nat
  BY <1>1, <1>2, <1>3 DEF TypeRequests, AllRequests
<1>6. /\ reqs' \in Seq(AllRequests) /\ Ordered(reqs)' /\ NoneNewer'
      /\ \A s \in Servers : Out(s)' = Out(s) \ {q}
      /\ \A r : Pending(r)' = Pending(r) \ {q}
  BY <1>2, <1>4, <1>5, OneLess
<1>7. TypeRequests'
  <2>1. acks' \in [Servers -> Nat]
    BY <1>1, <1>4, <1>5 DEF TypeRequests
  <2>. QED  BY <1>1, <1>4, <1>6, <2>1 DEF TypeRequests
<1>8. LostRight'
  BY <1>3, Zenon, ZenonT(60) DEF LostRight
<1>9. ASSUME NEW s \in Servers, s # t PROVE Counted(s)' /\ Registered(s)'
  <2>1. srv'[s] = srv[s] /\ acks'[s] <= acks[s]
    BY <1>1, <1>4, <1>5, <1>9 DEF TypeRequests
  <2>2. \A r \in Keys(s) : r # k
    BY <1>5, <1>9, KeyServer
  <2>3. \A r \in Keys(s) : Pending(r)' \subseteq Pending(r) /\ Lookup(map', r) = Lookup(map, r)
    BY <1>3, <1>6, <2>2
  <2>4. Out(s)' \subseteq Out(s)
    BY <1>6
  <2>. QED  BY <1>1, <1>4, <1>7, <2>1, <2>3, <2>4, LossStep DEF IInv
<1>10. Counted(t)' /\ Registered(t)'
  <2>1. q \in Pending(k) /\ q \in Range(reqs)
    BY <1>2, <1>5 DEF Pending, Range
  <2>2. Counted(t) /\ Registered(t)
    BY <1>5 DEF IInv
  <2>3. Current(t)' = Current(t) /\ Current(t) \in Nat /\ Keys(t)' = Keys(t)
    BY <1>1, <1>4, <1>5, CurrentPort DEF Current, Port, Keys, Netids
  <2>4. /\ acks[t] \in Nat /\ srv[t].num_wait \in Nat /\ srv'[t] = srv[t]
        /\ Cardinality(Keys(t)) \in Nat
    BY <1>1, <1>4, <1>5, KeysFinite DEF TypeRequests
  <2>5. ASSUME NEW r \in Keys(t), r # k
        PROVE  /\ Settled(t, r) => Settled(t, r)'
               /\ OnItsWay(t, r) => OnItsWay(t, r)'
    <3>1. Pending(r)' = Pending(r)
      BY <1>2, <1>6, <2>5 DEF Pending
    <3>2. Lookup(map, r)' = Lookup(map, r)
      BY <1>3, <1>5, <2>5 DEF Lookup
    <3>. QED  BY <2>3, <3>1, <3>2 DEF Settled, OnItsWay
  <2>6. ASSUME srv'[t].pc = "started", NEW r \in Keys(t), r \notin lost' PROVE Settled(t, r)'
    <3>1. Settled(t, r)
      BY <1>4, <2>2, <2>6 DEF Registered
    <3>2. r # k
      BY <2>1, <3>1 DEF Settled
    <3>. QED  BY <2>5, <3>1, <3>2
  <2>7. ASSUME NEW proc \in {1, 2}
        PROVE  /\ Request(t, Current(t), k, proc).inst = Current(t)
               /\ Request(t, Current(t), k, proc).proc = proc
               /\ Request(t, Current(t), k, proc).from = t
    BY <1>5, <2>3, RequestKey
  <2>8. CASE ~(srv[t].pc = "registering" /\ q.inst = Current(t))
    <3>1. acks' = acks
      BY <1>4, <2>8
    <3>2. srv[t].pc = "registering" => Out(t)' = Out(t)
      BY <1>5, <1>6, <2>8 DEF Out
    <3>3. Counted(t)'
      BY <2>2, <2>3, <2>4, <3>1, <3>2 DEF Counted
    <3>4. ASSUME srv'[t].pc = "registering",
                 Cardinality(Out(t)') + acks'[t] = srv'[t].num_wait,
                 NEW r \in Keys(t), r \notin lost'
          PROVE  OnItsWay(t, r)'
      <4>1. OnItsWay(t, r) /\ q.inst # Current(t)
        BY <1>4, <2>2, <2>4, <2>8, <3>1, <3>2, <3>4 DEF Registered
      <4>2. CASE r = k
        <5>1. q # Request(t, Current(t), k, 2) /\ q # Request(t, Current(t), k, 1)
          BY <2>7, <4>1
        <5>2. {Request(t, Current(t), k, 2), Request(t, Current(t), k, 1)} \subseteq Pending(k)
          BY <2>1, <4>1, <4>2, <5>1 DEF OnItsWay, Settled
        <5>. QED  BY <1>6, <2>3, <4>2, <5>1, <5>2 DEF OnItsWay
      <4>. QED  BY <2>5, <4>1, <4>2
    <3>. QED  BY <2>3, <2>6, <3>3, <3>4 DEF Registered
  <2>9. CASE srv[t].pc = "registering" /\ q.inst = Current(t)
    <3>1. acks'[t] = acks[t] + 1
      BY <1>1, <1>4, <1>5, <2>9 DEF TypeRequests
    <3>2. q \in Out(t) /\ Out(t)' = Out(t) \ {q}
      BY <1>2, <1>5, <1>6, <2>1, <2>9 DEF Out
    <3>3. /\ Cardinality(Out(t)') = Cardinality(Out(t)) - 1
          /\ Cardinality(Out(t)) \in Nat /\ Cardinality(Out(t)') \in Nat
      <4>1. IsFiniteSet(Out(t)) /\ Cardinality(Out(t)) \in Nat /\ Cardinality(Out(t)') \in Nat
        BY <1>1, <1>5, <3>2, OutFinite
      <4>. QED  BY <3>2, <4>1, FS_RemoveElement
    <3>4. Counted(t)'
      BY <2>2, <2>3, <2>4, <2>9, <3>1, <3>3 DEF Counted
    <3>5. ASSUME Cardinality(Out(t)') + acks'[t] = srv'[t].num_wait,
                 NEW r \in Keys(t), r \notin lost'
          PROVE  OnItsWay(t, r)'
      <4>1. OnItsWay(t, r)
        BY <1>4, <2>2, <2>4, <2>9, <3>1, <3>3, <3>5 DEF Registered
      <4>2. CASE r = k
        <5>1. CASE {Request(t, Current(t), k, 2), Request(t, Current(t), k, 1)} \subseteq Pending(k)
          <6>1. ASSUME NEW x \in Pending(k), x # q
                PROVE  /\ x \in AllRequests /\ x.from = t /\ x.inst <= Current(t)
                       /\ Before(q, x)
            <7>1. PICK j \in DOMAIN reqs : x = reqs[j]
              BY DEF Pending, Range
            <7>2. j > 1 /\ x \in AllRequests /\ x \in Range(reqs) /\ KeyOf(x) = k
              BY <1>1, <1>2, <6>1, <7>1 DEF TypeRequests, Pending
            <7>3. Before(q, x)
              BY <1>1, <1>2, <1>5, <7>1, <7>2 DEF Ordered
            <7>4. x.from \in Servers /\ k \in Keys(x.from)
              BY <7>2 DEF AllRequests
            <7>5. x.from = t
              BY <1>5, <7>4, KeyServer
            <7>. QED  BY <1>1, <7>2, <7>3, <7>5 DEF NoneNewer
          <6>2. q.proc = 2
            BY <1>5, <2>3, <2>7, <2>9, <5>1, <6>1 DEF Before
          <6>3. ASSUME NEW x \in Pending(k), x # q PROVE x = Request(t, Current(t), k, 1)
            <7>1. x.inst = Current(t) /\ x.proc = 1
              BY <1>5, <2>3, <2>9, <6>1, <6>3 DEF Before, AllRequests
            <7>2. KeyOf(x) = k
              BY DEF Pending
            <7>. QED  BY <6>1, <6>3, <7>1, <7>2, RequestIs
          <6>4. Pending(k)' = {Request(t, Current(t), k, 1)}
            <7>1. Request(t, Current(t), k, 1) # q
              BY <2>7, <6>2
            <7>. QED  BY <1>6, <5>1, <6>3, <7>1
          <6>5. Lookup(map', k) = {}
            BY <1>3, <1>5, <6>2
          <6>. QED  BY <2>3, <4>2, <6>4, <6>5 DEF OnItsWay, Lookup
        <5>2. CASE Pending(k) = {Request(t, Current(t), k, 1)} /\ Lookup(map, k) = {}
          <6>1. q.proc = 1 /\ Pending(k)' = {}
            BY <1>6, <2>1, <2>7, <5>2
          <6>2. Lookup(map', k) = {Mapping(k[1].prog, k[1].vers, k[2], Current(t))}
            BY <1>3, <1>5, <2>9, <5>2, <6>1
          <6>. QED  BY <2>3, <4>2, <6>1, <6>2 DEF OnItsWay, Settled, Lookup
        <5>3. ~Settled(t, k)
          BY <2>1 DEF Settled
        <5>. QED  BY <4>1, <4>2, <5>1, <5>2, <5>3 DEF OnItsWay
      <4>. QED  BY <2>5, <4>1, <4>2
    <3>. QED  BY <2>3, <2>6, <3>4, <3>5 DEF Registered
  <2>. QED  BY <2>8, <2>9
<1>. QED  BY <1>3, <1>6, <1>7, <1>8, <1>9, <1>10 DEF IInv

\* A new process: its requests go behind those of earlier ones, if rpcbind runs.
LEMMA StartStep == ASSUME IInv, NEW s \in Servers, Start(s) \/ StartFails(s) PROVE IInv'
<1>0. TypeRequests /\ NoneNewer /\ Ordered(reqs) /\ Counted(s) /\ reqs \in Seq(AllRequests)
  BY DEF IInv, TypeRequests
<1>1. \A x \in Range(reqs) : x \in AllRequests /\ x.inst <= Current(x.from)
  BY <1>0, RangeIn DEF NoneNewer
<1>2. UNCHANGED <<map, db, owed, up, undefined, acks, lost>> /\ srv[s].pc = "down"
  BY Zenon, ZenonT(60) DEF Start, StartFails, bindvars
<1>3. PICK n, p, q : n = srv[s].starts + 1 /\ p = Port(s, n) /\ q = Requests(s, p)
  OBVIOUS
<1>4. n \in Nat /\ p \in Nat /\ Current(s) < p /\ Current(s) \in Nat /\ srv[s].starts \in Nat
  <2>1. /\ Current(s) \in Nat /\ srv[s].starts \in Nat
        /\ Port(s, srv[s].starts + 1) \in Nat /\ Current(s) < Port(s, srv[s].starts + 1)
    BY <1>0, CurrentPort, Zenon, ZenonT(60), SMTT(60)
  <2>2. n \in Nat
    BY <1>3, <2>1
  <2>3. p = Port(s, srv[s].starts + 1)
    BY <1>3, Zenon, ZenonT(60), SMTT(60)
  <2>. QED  BY <2>1, <2>2, <2>3, Zenon, ZenonT(60), SMTT(60)
<1>5. IsBatch(s, p, q) /\ q \in Seq(AllRequests) /\ AllOf(s, p, q) /\ Ordered(q)
  <2>1. IsBatch(s, p, q)
    BY <1>3, <1>4, Batch, Zenon, ZenonT(60)
  <2>. QED  BY <2>1, Zenon, ZenonT(60) DEF IsBatch
<1>len. Len(q) = 2 * Cardinality(Keys(s)) /\ Cardinality(Keys(s)) \in Nat /\ Len(q) \in Nat
  <2>1. Len(q) = 2 * Cardinality(Keys(s))
    BY <1>5, Zenon, ZenonT(60) DEF IsBatch
  <2>2. Cardinality(Keys(s)) \in Nat
    BY KeysFinite, Zenon, ZenonT(60)
  <2>. QED  BY <2>1, <2>2
<1>6. PICK m : /\ m \in Seq(AllRequests) /\ Ordered(m) /\ AllOf(s, p, m)
               /\ reqs' = reqs \o m
               /\ \/ srv' = [srv EXCEPT ![s].starts = n]
                  \/ /\ srv' = [srv EXCEPT ![s] = [pc |-> "registering", starts |-> n,
                                                   num_wait |-> Len(q)]]
                     /\ m = IF up THEN q ELSE <<>>
  <2>1. /\ <<>> \in Seq(AllRequests) /\ Ordered(<<>>) /\ AllOf(s, p, <<>>)
        /\ reqs = reqs \o <<>>
    BY <1>0 DEF Ordered, AllOf
  <2>2. CASE Start(s)
    <3>1. \/ /\ srv' = [srv EXCEPT ![s] = [pc |-> "registering", starts |-> n,
                                           num_wait |-> Len(q)]]
             /\ reqs' = IF up THEN reqs \o q ELSE reqs
          \/ srv' = [srv EXCEPT ![s].starts = n] /\ reqs' = reqs
      BY <1>3, <2>2, Zenon, ZenonT(60) DEF Start
    <3>2. CASE srv' = [srv EXCEPT ![s].starts = n] /\ reqs' = reqs
      BY <2>1, <3>2, Zenon, ZenonT(60)
    <3>3. CASE /\ srv' = [srv EXCEPT ![s] = [pc |-> "registering", starts |-> n,
                                             num_wait |-> Len(q)]]
               /\ reqs' = IF up THEN reqs \o q ELSE reqs
      <4>1. CASE up
        BY <1>5, <3>3, <4>1, Zenon, ZenonT(60)
      <4>2. CASE ~up
        BY <2>1, <3>3, <4>2, Zenon, ZenonT(60)
      <4>. QED  BY <4>1, <4>2
    <3>. QED  BY <3>1, <3>2, <3>3, Zenon, ZenonT(60)
  <2>3. CASE StartFails(s)
    <3>1. PICK k \in 1..(Len(q) - 1) : reqs' = IF up THEN reqs \o SubSeq(q, 1, k) ELSE reqs
      BY <1>3, <2>3, Zenon, ZenonT(60) DEF StartFails
    <3>2. srv' = [srv EXCEPT ![s].starts = n]
      BY <1>3, <2>3 DEF StartFails
    <3>. DEFINE l == SubSeq(q, 1, k)
    <3>3. /\ l \in Seq(AllRequests) /\ DOMAIN l \subseteq DOMAIN q
          /\ \A i \in DOMAIN l : l[i] = q[i]
      BY <1>5
    <3>. HIDE DEF l
    <3>4. Ordered(l) /\ AllOf(s, p, l)
      BY <1>5, <3>3 DEF Ordered, AllOf
    <3>5. reqs' = IF up THEN reqs \o l ELSE reqs
      BY <3>1 DEF l
    <3>6. CASE up
      BY <3>2, <3>3, <3>4, <3>5, <3>6, Zenon, ZenonT(60)
    <3>7. CASE ~up
      BY <2>1, <3>2, <3>5, <3>7, Zenon, ZenonT(60)
    <3>. QED  BY <3>6, <3>7
  <2>. QED  BY <2>2, <2>3
<1>7. /\ reqs' \in Seq(AllRequests) /\ Ordered(reqs') /\ Range(reqs') = Range(reqs) \cup Range(m)
  <2>1. AllOlder(s, p, reqs)
    <3>1. SUFFICES ASSUME NEW i \in DOMAIN reqs, reqs[i].from = s PROVE reqs[i].inst < p
      BY Zenon, ZenonT(60) DEF AllOlder
    <3>2. reqs[i] \in Range(reqs) /\ reqs[i].inst <= Current(s)
      BY <1>1, <3>1 DEF Range
    <3>3. reqs[i].inst \in Nat
      BY <1>1, <3>2 DEF AllRequests
    <3>. QED  BY <1>4, <3>2, <3>3
  <2>2. /\ reqs \o m \in Seq(AllRequests) /\ Ordered(reqs \o m)
        /\ Range(reqs \o m) = Range(reqs) \cup Range(m)
    BY <1>0, <1>4, <1>6, <2>1, Behind, Zenon, ZenonT(60)
  <2>. QED  BY <1>6, <2>2, Zenon, ZenonT(60)
<1>8. srv' \in [Servers -> [pc : {"down", "registering", "started"}, starts : Nat, num_wait : Nat]]
  <2>1. Len(q) \in Nat
    BY <1>len
  <2>2. CASE srv' = [srv EXCEPT ![s].starts = n]
    BY <1>0, <1>4, <2>2, Zenon, SMTT(60) DEF TypeRequests
  <2>3. CASE srv' = [srv EXCEPT ![s] = [pc |-> "registering", starts |-> n, num_wait |-> Len(q)]]
    BY <1>0, <1>4, <2>1, <2>3 DEF TypeRequests
  <2>. QED  BY <1>6, <2>2, <2>3
<1>9. /\ srv'[s].starts = n /\ \A t \in Servers : t # s => srv'[t] = srv[t]
      /\ Current(s)' = p /\ \A t \in Servers : t # s => Current(t)' = Current(t)
  <2>1. srv'[s].starts = n /\ \A t \in Servers : t # s => srv'[t] = srv[t]
    BY <1>0, <1>6 DEF TypeRequests
  <2>. QED  BY <1>3, <2>1 DEF Current, Port
<1>10. TypeRequests' /\ TypeTable' /\ LostRight' /\ Ordered(reqs)'
  <2>1. TypeRequests'
    BY <1>0, <1>2, <1>7, <1>8 DEF TypeRequests
  <2>2. TypeTable' /\ LostRight' /\ Ordered(reqs)'
    BY <1>2, <1>7, Zenon, ZenonT(60)
         DEF IInv, TypeTable, LostRight, Lookup, map_lookup, Ordered, Before, KeyOf
  <2>. QED  BY <2>1, <2>2
<1>11. \A x \in Range(m) : x.from = s /\ x.inst = p /\ x \in AllRequests
  BY <1>6, RangeIn DEF Range, AllOf
<1>12. NoneNewer'
  <2>1. SUFFICES ASSUME NEW x \in Range(reqs') PROVE x.inst <= Current(x.from)'
    BY DEF NoneNewer
  <2>2. CASE x \in Range(m)
    BY <1>4, <1>9, <1>11, <2>2
  <2>3. CASE x \in Range(reqs)
    <3>1. x \in AllRequests /\ x.inst <= Current(x.from)
      BY <1>1, <2>3
    <3>2. x.from \in Servers /\ x.inst \in Nat
      BY <3>1 DEF AllRequests
    <3>. QED  BY <1>4, <1>9, <3>1, <3>2
  <2>. QED  BY <1>7, <2>2, <2>3
<1>13. ASSUME NEW t \in Servers, t # s PROVE Counted(t)' /\ Registered(t)'
  <2>1. Out(t)' = Out(t)
    BY <1>7, <1>9, <1>11, <1>13 DEF Out
  <2>2. ASSUME NEW r \in Keys(t) PROVE Pending(r)' = Pending(r)
    <3>1. ASSUME NEW x \in Range(m) PROVE KeyOf(x) # r
      <4>1. KeyOf(x) \in Keys(s)
        BY <1>11, <3>1 DEF AllRequests
      <4>. QED  BY <1>13, <4>1, KeyServer
    <3>. QED  BY <1>7, <3>1 DEF Pending, KeyOf
  <2>3. srv'[t] = srv[t] /\ acks'[t] <= acks[t]
    BY <1>0, <1>2, <1>9, <1>13 DEF TypeRequests
  <2>. QED  BY <1>0, <1>2, <1>10, <2>1, <2>2, <2>3, LossStep, Zenon, SMTT(60) DEF IInv
<1>14. Counted(s)' /\ Registered(s)'
  <2>1. Keys(s)' = Keys(s) /\ Cardinality(Keys(s)) \in Nat /\ acks'[s] = 0 /\ srv[s].num_wait = 0
    BY <1>0, <1>2, KeysFinite, Zenon, SMTT(60) DEF Keys, Netids, Counted
  <2>2. CASE srv' = [srv EXCEPT ![s].starts = n]
    <3>1. srv'[s].pc = "down" /\ srv'[s].num_wait = 0
      BY <1>0, <1>2, <2>1, <2>2 DEF TypeRequests
    <3>. QED  BY <2>1, <3>1 DEF Counted, Registered
  <2>3. CASE /\ srv' = [srv EXCEPT ![s] = [pc |-> "registering", starts |-> n,
                                           num_wait |-> Len(q)]]
             /\ m = IF up THEN q ELSE <<>>
    <3>1. srv'[s].pc = "registering" /\ srv'[s].num_wait = Len(q)
      BY <1>0, <2>3 DEF TypeRequests
    <3>2. Out(s)' = Range(m)
      <4>1. ASSUME NEW x \in Range(reqs), x.from = s PROVE x.inst # p
        <5>1. x \in AllRequests /\ x.inst <= Current(s)
          BY <1>1, <4>1, Zenon, SMTT(60)
        <5>2. x.inst \in Nat
          BY <5>1 DEF AllRequests
        <5>. QED  BY <1>4, <5>1, <5>2
      <4>. QED  BY <1>7, <1>9, <1>11, <4>1 DEF Out
    <3>3. CASE up
      <4>1. Cardinality(Out(s)') <= Len(q)
        BY <1>5, <2>3, <3>2, <3>3, RangeFinite
      <4>2. Cardinality(Out(s)') \in Nat
        BY <1>6, <3>2, RangeFinite, FS_CardinalityType
      <4>acks. acks'[s] = 0
        BY <2>1
      <4>3. Counted(s)'
        BY <1>len, <3>1, <4>1, <4>2, <4>acks DEF Counted
      <4>4. ASSUME NEW r \in Keys(s), NEW proc \in {1, 2}
            PROVE  Request(s, p, r, proc) \in Pending(r)'
        <5>1. Request(s, p, r, proc) \in Range(m)
          BY <1>5, <2>3, <3>3 DEF IsBatch
        <5>2. KeyOf(Request(s, p, r, proc)) = r
          BY <1>4, RequestKey
        <5>. QED  BY <1>7, <5>1, <5>2 DEF Pending, KeyOf
      <4>5. ASSUME NEW r \in Keys(s) PROVE OnItsWay(s, r)'
        BY <1>9, <4>4, Zenon, SMTT(60) DEF OnItsWay
      <4>. QED  BY <2>1, <3>1, <4>3, <4>5 DEF Registered
    <3>4. CASE ~up
      <4>1. Out(s)' = {} /\ Cardinality(Out(s)') = 0
        <5>1. m = <<>> /\ Range(<<>>) = {}
          BY <2>3, <3>4 DEF Range
        <5>. QED  BY <3>2, <5>1, FS_EmptySet
      <4>2. Counted(s)'
        BY <1>len, <2>1, <3>1, <4>1 DEF Counted
      <4>3. Len(q) = 0 => Keys(s) = {}
        <5>1. Len(q) = 0 => Cardinality(Keys(s)) = 0
          BY <1>len
        <5>. QED  BY <5>1, KeysFinite, FS_EmptySet, Zenon, ZenonT(60)
      <4>. QED  BY <2>1, <3>1, <4>1, <4>2, <4>3 DEF Registered
    <3>. QED  BY <3>3, <3>4
  <2>. QED  BY <1>6, <2>2, <2>3
<1>. QED  BY <1>10, <1>12, <1>13, <1>14 DEF IInv

\* A step of one server that leaves rpcbind and the requests alone concerns no other server.
LEMMA OwnStep ==
  ASSUME IInv, NEW s \in Servers, TypeRequests', Counted(s)', Registered(s)',
         UNCHANGED <<map, db, owed, up, undefined, reqs, lost>>,
         srv'[s].starts = srv[s].starts,
         \A t \in Servers \ {s} : srv'[t] = srv[t] /\ acks'[t] = acks[t]
  PROVE  IInv'
<1>1. \A t \in Servers : Current(t)' = Current(t)
  BY DEF Current, Port
<1>2. NoneNewer'
  <2>1. \A q \in Range(reqs) : q.from \in Servers
    BY RangeIn DEF IInv, TypeRequests, AllRequests
  <2>. QED  BY <1>1, <2>1, Zenon, SMTT(60) DEF IInv, NoneNewer
<1>3. TypeTable' /\ LostRight' /\ Ordered(reqs)'
  BY Zenon, ZenonT(60)
       DEF IInv, TypeTable, LostRight, Lookup, map_lookup, Ordered, Before, KeyOf
<1>4. ASSUME NEW t \in Servers, t # s PROVE Counted(t)' /\ Registered(t)'
  <2>1. Out(t)' = Out(t) /\ \A r \in Keys(t) : Pending(r)' = Pending(r)
    BY <1>1 DEF Out, Pending
  <2>2. srv'[t] = srv[t] /\ acks'[t] <= acks[t]
    BY <1>4 DEF IInv, TypeRequests
  <2>3. \A r \in Keys(t) : r \in lost' \/ Lookup(map', r) = Lookup(map, r)
    OBVIOUS
  <2>4. TypeRequests /\ Counted(t) /\ Registered(t) /\ lost \subseteq lost'
    BY Zenon, SMTT(60) DEF IInv
  <2>. QED  BY <2>1, <2>2, <2>3, <2>4, LossStep, Zenon, SMTT(60)
<1>. QED  BY <1>2, <1>3, <1>4, Zenon, SMTT(60) DEF IInv

\* A server whose registration timed out, or that exits, waits for nothing.
LEMMA EndStep == ASSUME IInv, NEW s \in Servers, timeout_cb(s) \/ Exit(s) PROVE IInv'
<1>1. UNCHANGED <<map, db, owed, up, undefined, reqs, lost>>
  BY Zenon, ZenonT(60) DEF timeout_cb, Exit, bindvars
<1>2. TypeRequests /\ Counted(s)
  BY DEF IInv
<1>3. /\ srv' \in [Servers -> [pc : {"down", "registering", "started"},
                               starts : Nat, num_wait : Nat]]
      /\ acks' \in [Servers -> Nat]
      /\ srv'[s].pc = "down" /\ srv'[s].num_wait = 0 /\ acks'[s] = 0
      /\ srv'[s].starts = srv[s].starts
      /\ \A t \in Servers \ {s} : srv'[t] = srv[t] /\ acks'[t] = acks[t]
  <2>1. CASE timeout_cb(s)
    BY <1>2, <2>1, Zenon, SMTT(60) DEF timeout_cb, TypeRequests
  <2>2. CASE Exit(s)
    BY <1>2, <2>2 DEF Exit, TypeRequests, Counted
  <2>. QED  BY <2>1, <2>2
<1>4. TypeRequests'
  BY <1>1, <1>2, <1>3 DEF TypeRequests
<1>5. Cardinality(Keys(s)) \in Nat
  BY KeysFinite
<1>6. Counted(s)' /\ Registered(s)'
  BY <1>3, <1>5 DEF Counted, Registered
<1>. QED  BY <1>1, <1>3, <1>4, <1>6, OwnStep

\* A request of the current process about one of its keys is among those it waits for.
LEMMA PendingOut ==
  ASSUME TypeRequests, NEW s \in Servers, NEW r \in Keys(s), NEW proc \in {1, 2},
         Request(s, Current(s), r, proc) \in Pending(r)
  PROVE  Request(s, Current(s), r, proc) \in Out(s)
BY CurrentPort, RequestKey DEF Pending, Out

\* Of c requests and a answers on their way and w that are waited for, one is counted.
LEMMA OneAnswer ==
  ASSUME NEW c \in Nat, NEW a \in Nat, NEW w \in Nat, NEW k \in Nat,
         a > 0, c + a <= w, w <= 2 * k
  PROVE  /\ w - 1 <= 2 * k /\ c + (a - 1) <= w - 1
         /\ c + (a - 1) = w - 1 => c + a = w
         /\ w = 1 => c = 0 /\ c + a = w /\ w - 1 = 0 /\ a - 1 = 0
OBVIOUS

\* A reply is counted.  With the last one the server is started: nothing of its requests
\* is on its way any more, so every key that is not lost is settled.
LEMMA SetCbStep == ASSUME IInv, NEW s \in Servers, pmap4_set_cb(s) PROVE IInv'
<1>1. /\ UNCHANGED <<map, db, owed, up, undefined, reqs, lost>>
      /\ srv[s].pc = "registering" /\ acks[s] > 0
  BY Zenon, ZenonT(60) DEF pmap4_set_cb, bindvars
<1>2. TypeRequests /\ Counted(s) /\ Registered(s)
  BY DEF IInv
<1>3. /\ srv' \in [Servers -> [pc : {"down", "registering", "started"},
                               starts : Nat, num_wait : Nat]]
      /\ acks' \in [Servers -> Nat]
      /\ srv'[s].pc = IF srv[s].num_wait = 1 THEN "started" ELSE "registering"
      /\ srv[s].num_wait \in Nat /\ srv'[s].num_wait = srv[s].num_wait - 1
      /\ acks[s] \in Nat /\ acks'[s] = acks[s] - 1
      /\ srv'[s].starts = srv[s].starts
      /\ \A t \in Servers \ {s} : srv'[t] = srv[t] /\ acks'[t] = acks[t]
  <2>1. Cardinality(Out(s)) \in Nat /\ Cardinality(Out(s)) + acks[s] <= srv[s].num_wait
    BY <1>1, <1>2, OutFinite DEF Counted
  <2>2. acks[s] \in Nat /\ acks[s] - 1 \in Nat /\ srv[s].num_wait \in Nat
        /\ srv[s].num_wait - 1 \in Nat
    BY <1>1, <1>2, <2>1 DEF TypeRequests
  <2>3. acks' = [acks EXCEPT ![s] = acks[s] - 1]
    BY DEF pmap4_set_cb
  <2>4. srv' = [srv EXCEPT ![s] = [srv[s] EXCEPT
                  !.num_wait = srv[s].num_wait - 1,
                  !.pc = IF srv[s].num_wait = 1 THEN "started" ELSE srv[s].pc]]
    BY <1>2, Zenon, SMTT(60) DEF pmap4_set_cb, TypeRequests
  <2>5. srv'[s] = [pc |-> IF srv[s].num_wait = 1 THEN "started" ELSE "registering",
                   starts |-> srv[s].starts, num_wait |-> srv[s].num_wait - 1]
    BY <1>1, <1>2, <2>4, Zenon, SMTT(60) DEF TypeRequests
  <2>. QED  BY <1>2, <2>2, <2>3, <2>4, <2>5, Zenon, SMTT(60) DEF TypeRequests
<1>num. /\ srv[s].num_wait \in Nat /\ srv'[s].num_wait = srv[s].num_wait - 1
        /\ acks[s] \in Nat /\ acks'[s] = acks[s] - 1
  BY <1>3
<1>4. TypeRequests'
  BY <1>1, <1>2, <1>3 DEF TypeRequests
<1>5. Current(s)' = Current(s) /\ Out(s)' = Out(s) /\ \A r : Pending(r)' = Pending(r)
  <2>1. Current(s)' = Current(s)
    BY <1>3, Zenon, ZenonT(60) DEF Current, Port
  <2>. QED  BY <1>1, <2>1, Zenon, ZenonT(60) DEF Out, Pending, KeyOf
<1>6. Cardinality(Out(s)) \in Nat /\ Cardinality(Keys(s)) \in Nat
  BY <1>2, OutFinite, KeysFinite
<1>7. Cardinality(Out(s)) + acks[s] <= srv[s].num_wait
  BY <1>1, <1>2 DEF Counted
<1>8. ASSUME NEW r PROVE Settled(s, r) = Settled(s, r)' /\ OnItsWay(s, r) = OnItsWay(s, r)'
  BY <1>1, <1>5, Zenon, SMTT(60) DEF Settled, OnItsWay, Lookup
<1>one. /\ srv[s].num_wait - 1 <= 2 * Cardinality(Keys(s))
        /\ Cardinality(Out(s)) + (acks[s] - 1) <= srv[s].num_wait - 1
        /\ Cardinality(Out(s)) + (acks[s] - 1) = srv[s].num_wait - 1
             => Cardinality(Out(s)) + acks[s] = srv[s].num_wait
        /\ srv[s].num_wait = 1 =>
             /\ Cardinality(Out(s)) = 0 /\ Cardinality(Out(s)) + acks[s] = srv[s].num_wait
             /\ srv[s].num_wait - 1 = 0 /\ acks[s] - 1 = 0
  <2>1. srv[s].num_wait <= 2 * Cardinality(Keys(s))
    BY <1>2, Zenon, SMTT(60) DEF Counted
  <2>2. acks[s] > 0
    BY <1>1, Zenon, SMTT(60)
  <2>. QED  BY <1>6, <1>7, <1>num, <2>1, <2>2, OneAnswer
<1>9. Counted(s)'
  <2>1. /\ srv'[s].num_wait <= 2 * Cardinality(Keys(s))
        /\ Cardinality(Out(s)) + acks'[s] <= srv'[s].num_wait
        /\ srv[s].num_wait = 1 => srv'[s].num_wait = 0 /\ acks'[s] = 0
    BY <1>num, <1>one, Zenon, SMTT(60)
  <2>2. srv'[s].pc = IF srv[s].num_wait = 1 THEN "started" ELSE "registering"
    BY <1>3, Zenon, ZenonT(60)
  <2>. QED  BY <1>5, <2>1, <2>2, Zenon, SMTT(60) DEF Counted
<1>10. ASSUME srv'[s].pc = "registering",
              Cardinality(Out(s)') + acks'[s] = srv'[s].num_wait,
              NEW r \in Keys(s), r \notin lost
       PROVE  OnItsWay(s, r)'
  <2>1. Cardinality(Out(s)) + acks[s] = srv[s].num_wait
    <3>1. Cardinality(Out(s)) + (acks[s] - 1) = srv[s].num_wait - 1
      BY <1>5, <1>10, <1>num, Zenon, ZenonT(60)
    <3>. QED  BY <1>one, <3>1, Zenon, SMTT(60)
  <2>. QED  BY <1>1, <1>2, <1>8, <1>10, <2>1, Zenon, SMTT(60) DEF Registered
<1>11. ASSUME srv'[s].pc = "started", NEW r \in Keys(s), r \notin lost
       PROVE  Settled(s, r)'
  <2>1. Cardinality(Out(s)) = 0 /\ Cardinality(Out(s)) + acks[s] = srv[s].num_wait
    <3>1. srv[s].num_wait = 1
      <4>1. srv'[s].pc = IF srv[s].num_wait = 1 THEN "started" ELSE "registering"
        BY <1>3, Zenon, ZenonT(60)
      <4>. QED  BY <1>11, <4>1
    <3>. QED  BY <1>one, <3>1, Zenon, SMTT(60)
  <2>2. Out(s) = {}
    <3>1. IsFiniteSet(Out(s))
      BY <1>2, OutFinite
    <3>. QED  BY <2>1, <3>1, FS_EmptySet, Zenon, SMTT(60)
  <2>3. OnItsWay(s, r)
    BY <1>1, <1>2, <1>11, <2>1, Zenon, SMTT(60) DEF Registered
  <2>4. Request(s, Current(s), r, 1) \notin Pending(r)
    <3>1. 1 \in {1, 2}
      OBVIOUS
    <3>. QED  BY <1>2, <2>2, <3>1, PendingOut, Zenon, SMTT(60)
  <2>. QED  BY <1>8, <2>3, <2>4 DEF OnItsWay
<1>12. Registered(s)'
  BY <1>1, <1>10, <1>11, Zenon, SMTT(60) DEF Registered, Keys, Netids
<1>. QED  BY <1>1, <1>3, <1>4, <1>9, <1>12, OwnStep

\* The other steps leave what the invariant says of the servers alone.
LEMMA OtherStep ==
  ASSUME IInv, \/ Save \/ Forwarded \/ UNCHANGED vars
               \/ \E c \in MountClients : ServeMount(c)
               \/ \E c \in Clients : ServeClient(c)
  PROVE  IInv'
<1>1. CASE \E c \in Clients : ServeClient(c)
  BY <1>1, ClientKeeps, Zenon, ZenonT(60)
<1>2. ASSUME UNCHANGED <<srv, reqs, acks, lost, map>>, TypeTable', LostRight' PROVE IInv'
  BY <1>2, OthersKeep
<1>3. CASE Save
  <2>1. /\ UNCHANGED <<srv, reqs, acks, lost, map, up, undefined>> /\ up /\ owed' = FALSE
        /\ db' = db \/ db' = map
    BY <1>3, Zenon, ZenonT(60) DEF Save, write_db
  <2>2. TypeTable' /\ LostRight'
    BY <2>1, Zenon, ZenonT(60) DEF IInv, TypeTable, LostRight
  <2>. QED  BY <1>2, <2>1, <2>2, Zenon, ZenonT(60)
<1>4. CASE Forwarded
  <2>1. UNCHANGED <<srv, reqs, acks, lost, map, db, owed, up>> /\ undefined' \in BOOLEAN
    <3>1. PICK i \in DOMAIN callits :
                \/ \E success \in BOOLEAN : callit_cb(i, success, Clients)
                \/ callit_timeout_cb(i, Clients)
      BY <1>4, Zenon, ZenonT(60) DEF Forwarded
    <3>2. UNCHANGED <<srv, reqs, acks, lost>>
      BY <1>4, Zenon, ZenonT(60) DEF Forwarded
    <3>3. ASSUME NEW success \in BOOLEAN, callit_cb(i, success, Clients)
          PROVE  UNCHANGED <<map, db, owed, up>> /\ undefined' \in BOOLEAN
      BY <3>3 DEF callit_cb
    <3>4. ASSUME callit_timeout_cb(i, Clients)
          PROVE  UNCHANGED <<map, db, owed, up>> /\ undefined' \in BOOLEAN
      BY <3>4 DEF callit_timeout_cb
    <3>. QED  BY <3>1, <3>2, <3>3, <3>4, Zenon, ZenonT(60)
  <2>2. TypeTable' /\ LostRight'
    BY <2>1, Zenon, ZenonT(60) DEF IInv, TypeTable, LostRight, Lookup, map_lookup
  <2>. QED  BY <1>2, <2>1, <2>2, Zenon, ZenonT(60)
<1>5. CASE UNCHANGED <<srv, reqs, acks, lost, map, db, owed, up, undefined>>
  <2>1. TypeTable' /\ LostRight'
    BY <1>5, Zenon, ZenonT(60) DEF IInv, TypeTable, LostRight, Lookup, map_lookup
  <2>. QED  BY <1>2, <1>5, <2>1, Zenon, ZenonT(60)
<1>6. CASE UNCHANGED vars \/ \E c \in MountClients : ServeMount(c)
  BY <1>5, <1>6, Zenon, ZenonT(60) DEF vars, ServeMount, bindvars
<1>. QED  BY <1>1, <1>3, <1>4, <1>6, Zenon, ZenonT(60)

\* At the start nothing is registered, on its way or waited for.
LEMMA InitIInv == ASSUME Init PROVE IInv
<1>1. /\ map = {} /\ db = {} /\ owed = FALSE /\ up = TRUE /\ undefined = FALSE
      /\ reqs = <<>> /\ lost = {}
      /\ srv = [s \in Servers |-> [pc |-> "down", starts |-> 0, num_wait |-> 0]]
      /\ acks = [s \in Servers |-> 0]
  BY Zenon, ZenonT(60) DEF Init, RpcbindInit
<1>2. TypeRequests
  BY <1>1 DEF TypeRequests
<1>3. TypeTable /\ LostRight
  BY <1>1, Zenon, ZenonT(60) DEF TypeTable, LostRight
<1>4. Ordered(reqs) /\ NoneNewer
  BY <1>1 DEF Ordered, NoneNewer, Range
<1>5. ASSUME NEW s \in Servers PROVE Counted(s) /\ Registered(s)
  <2>1. srv[s].pc = "down" /\ srv[s].num_wait = 0 /\ acks[s] = 0
    BY <1>1
  <2>2. Cardinality(Keys(s)) \in Nat
    BY KeysFinite
  <2>. QED  BY <2>1, <2>2 DEF Counted, Registered
<1>. QED  BY <1>2, <1>3, <1>4, <1>5 DEF IInv

\* Every step from a state of the invariant leads to one.
LEMMA NextIInv == ASSUME IInv, [Next]_vars PROVE IInv'
BY StartStep, SetCbStep, EndStep, ServeRequestStep, LoseRequestStep, LoseReplyStep,
   DiesStep, RestartStep, OtherStep, Zenon, ZenonT(60) DEF Next

\* The invariant gives the types and the bounds: a server sends two requests for each key.
LEMMA IInvTypeOK == ASSUME IInv PROVE TypeOK
<1>1. TypeTable
  BY DEF IInv
<1>2. ASSUME NEW s \in Servers
      PROVE  /\ srv[s].pc \in {"down", "registering", "started"}
             /\ srv[s].num_wait \in 0..Len(Requests(s, Port(s, 1)))
             /\ acks[s] \in 0..srv[s].num_wait
  <2>1. TypeRequests /\ Counted(s)
    BY DEF IInv
  <2>2. Cardinality(Out(s)) \in Nat /\ Cardinality(Keys(s)) \in Nat
    BY <2>1, OutFinite, KeysFinite
  <2>3. Port(s, 1) \in Nat
    <3>1. PortBase[s] \in Nat
      BY ServersAssumption
    <3>. QED  BY <3>1 DEF Port
  <2>4. Len(Requests(s, Port(s, 1))) = 2 * Cardinality(Keys(s))
    BY <2>3, Batch, Zenon, ZenonT(60) DEF IsBatch
  <2>5. /\ srv[s].pc \in {"down", "registering", "started"}
        /\ srv[s].num_wait \in Nat /\ acks[s] \in Nat
    BY <2>1 DEF TypeRequests
  <2>6. srv[s].num_wait <= 2 * Cardinality(Keys(s)) /\ acks[s] <= srv[s].num_wait
    BY <2>1, <2>2, <2>5 DEF Counted
  <2>. QED  BY <2>2, <2>4, <2>5, <2>6
<1>. QED  BY <1>1, <1>2, Zenon, ZenonT(60) DEF TypeOK, TypeTable

\* A key that is settled has the registration of the process that runs.
LEMMA IInvStarted == ASSUME IInv PROVE StartedIsRegistered
<1>1. SUFFICES ASSUME NEW s \in Servers, srv[s].pc = "started",
                      NEW k \in Range(Table[s]), NEW n \in Netids, <<k, n>> \notin lost
               PROVE  map_lookup(map, k.prog, k.vers, n)
                        = {Mapping(k.prog, k.vers, n, Port(s, srv[s].starts))}
  BY Zenon, ZenonT(60) DEF StartedIsRegistered
<1>2. <<k, n>> \in Keys(s) /\ <<k, n>>[1] = k /\ <<k, n>>[2] = n
  BY DEF Keys
<1>3. Settled(s, <<k, n>>)
  BY <1>1, <1>2, Zenon, ZenonT(60) DEF IInv, Registered
<1>. QED  BY <1>2, <1>3, Zenon, SMTT(60) DEF Settled, Lookup, Current

-----------------------------------------------------------------------------
(* mountd.                                                                 *)

\* What UMNTALL leaves is of other clients.
LEMMA UmntallLeaves ==
  ASSUME NEW c, NEW list PROVE \A e \in Range(Umntall(c, list)) : e.client # c
<1>. DEFINE First == {i \in DOMAIN list : /\ list[i].client # c
                                          /\ \A j \in 1..(i - 1) : list[j].client = c}
<1>1. CASE First = {}
  <2>1. Umntall(c, list) = <<>>
    BY <1>1 DEF Umntall
  <2>. QED  BY <2>1 DEF Range
<1>2. CASE First # {}
  <2>1. PICK k : k = CHOOSE i \in First : TRUE
    OBVIOUS
  <2>2. k \in First
    BY <1>2, <2>1, Zenon, ZenonT(60)
  <2>3. Umntall(c, list) = <<list[k]>>
    BY <1>2, <2>1 DEF Umntall
  <2>. QED  BY <2>2, <2>3 DEF Range
<1>. QED  BY <1>1, <1>2

\* Only UMNTALL answers with its name.
LEMMA UmntallStep == ASSUME UmntallForgets, [Next]_vars PROVE UmntallForgets'
<1>1. ASSUME NEW to, NEW proc, NEW res, rpc_send_reply(to, proc, res), proc # "umntall"
      PROVE  UmntallForgets'
  BY <1>1 DEF rpc_send_reply, UmntallForgets
<1>2. ASSUME Silent PROVE UmntallForgets'
  BY <1>2 DEF Silent, NoAnswer, UmntallForgets
<1>3. ASSUME NEW to, NEW vers, NEW proc, NEW a, Procedure(to, vers, proc, a)
      PROVE  UmntallForgets'
  <2>1. \/ Silent
        \/ \E p \in {"void", "set", "unset", "pmap2_getport", "pmap3_getaddr", "dump"} :
             \E res : rpc_send_reply(to, p, res)
    BY <1>3, Zenon, ZenonT(60)
         DEF Procedure, Stateless, pmap2_set_proc, pmap3_set_proc, pmap2_unset_proc,
         pmap3_unset_proc, pmap2_getport_proc, pmap3_getaddr_proc, pmap2_dump_proc,
         pmap3_dump_proc, Dump, pmapX_callit_proc, Set, Unset
  <2>. QED  BY <1>1, <1>2, <2>1
<1>4. ASSUME NEW s \in Servers,
             Start(s) \/ StartFails(s) \/ pmap4_set_cb(s) \/ timeout_cb(s) \/ Exit(s)
      PROVE  UmntallForgets'
  BY <1>2, <1>4, Zenon, ZenonT(60) DEF Start, StartFails, pmap4_set_cb, timeout_cb, Exit
<1>5. CASE ServeRequest
  BY <1>3, <1>5, Zenon, ZenonT(60) DEF ServeRequest
<1>6. CASE LoseRequest \/ LoseReply \/ Save \/ RpcbindDies \/ RpcbindRestarts
  BY <1>2, <1>6, Zenon, ZenonT(60) DEF LoseRequest, LoseReply, Save, write_db, RpcbindDies, Die,
       RpcbindRestarts, Restart
<1>7. ASSUME NEW c \in Clients, ServeClient(c) PROVE UmntallForgets'
  <2>1. \/ \E v, proc, a : Procedure(c, v, proc, a)
        \/ \E res : rpc_send_reply(c, "error", res)
    BY <1>7, Zenon, ZenonT(60) DEF ServeClient, Refuse
  <2>. QED  BY <1>1, <1>3, <2>1
<1>8. ASSUME NEW c \in MountClients, ServeMount(c) PROVE UmntallForgets'
  <2>1. \/ \E p \in {"mnt", "umnt", "mounts", "export", "null"} :
             \E res : rpc_send_reply(c, p, res)
        \/ \E fails \in BOOLEAN : mount3_umntall_proc(c, fails)
    BY <1>8, Zenon, ZenonT(60)
         DEF ServeMount, mount3_mnt_proc, mount3_umnt_proc, mount3_dump_proc,
         mount3_export_proc, mount3_null_proc
  <2>2. ASSUME NEW fails \in BOOLEAN, mount3_umntall_proc(c, fails) PROVE UmntallForgets'
    <3>1. /\ answer'.to = c /\ answer'.res = fails
          /\ ~fails => clients' = Umntall(c, clients)
      BY <2>2 DEF mount3_umntall_proc, rpc_send_reply
    <3>2. \A e \in Range(Umntall(c, clients)) : e.client # c
      BY UmntallLeaves
    <3>. QED  BY <3>1, <3>2, Zenon, ZenonT(60) DEF UmntallForgets
  <2>. QED  BY <1>1, <2>1, <2>2
<1>9. CASE Forwarded
  <2>1. Silent \/ \E to, res : rpc_send_reply(to, "callit", res)
    BY <1>9, Zenon, ZenonT(60) DEF Forwarded, callit_cb, callit_timeout_cb
  <2>. QED  BY <1>1, <1>2, <2>1
<1>10. CASE UNCHANGED vars
  BY <1>10, Zenon, ZenonT(60) DEF vars, UmntallForgets
<1>. QED  BY <1>4, <1>5, <1>6, <1>7, <1>8, <1>9, <1>10, Zenon, ZenonT(60) DEF Next

-----------------------------------------------------------------------------
(* Theorems.                                                               *)

\* rpcbind never has two registrations of one program, version and netid, in its table or
\* on file: not by concurrent SETs of several servers and clients, not by the restarts
\* that read back a file older than the table.
THEOREM RegisteredOnce == Spec => []OneRegistration
<1>1. Init => OneRegistration
  BY Zenon, ZenonT(60) DEF Init, RpcbindInit, OneRegistration
<1>2. OneRegistration /\ [Next]_vars => OneRegistration'
  BY NextTable, OneRegistrationStep
<1>. QED  BY <1>1, <1>2, PTL DEF Spec

\* Whenever rpcbind waits for an event its file is its table, if that fits the buffer of
\* write_db.
THEOREM AlwaysOnFile == Spec => []OnFile
<1>1. Init => OnFile
  BY Zenon, ZenonT(60) DEF Init, RpcbindInit, OnFile
<1>2. OnFile /\ [Next]_vars => OnFile'
  BY NextTable, OnFileStep
<1>. QED  BY <1>1, <1>2, PTL DEF Spec

\* Whatever datagrams are lost, in whatever order servers start, give up and come back and
\* rpcbind dies and restarts: a server never waits for more answers than it asked for, and
\* never has more on their way.
THEOREM ServersTyped == Spec => []TypeOK
<1>1. Init => IInv
  BY InitIInv
<1>2. IInv /\ [Next]_vars => IInv'
  BY NextIInv
<1>3. IInv => TypeOK
  BY IInvTypeOK
<1>. QED  BY <1>1, <1>2, <1>3, PTL DEF Spec

\* A server that libnfs_create_server has started is registered with the port of this very
\* process for each of its programs, versions and netids that a death of rpcbind did not
\* lose: late requests of its earlier processes cannot replace or remove a registration.
THEOREM StartedRegistered == Spec => []StartedIsRegistered
<1>1. Init => IInv
  BY InitIInv
<1>2. IInv /\ [Next]_vars => IInv'
  BY NextIInv
<1>3. IInv => StartedIsRegistered
  BY IInvStarted
<1>. QED  BY <1>1, <1>2, <1>3, PTL DEF Spec

\* After UMNTALL of mountd no entry of the caller is left, however its list was made.
THEOREM Forgotten == Spec => []UmntallForgets
<1>1. Init => UmntallForgets
  <2>1. ASSUME answer = NoAnswer PROVE UmntallForgets
    BY <2>1 DEF NoAnswer, UmntallForgets
  <2>. QED  BY <2>1, Zenon, ZenonT(60) DEF Init
<1>2. UmntallForgets /\ [Next]_vars => UmntallForgets'
  BY UmntallStep
<1>. QED  BY <1>1, <1>2, PTL DEF Spec

=============================================================================
