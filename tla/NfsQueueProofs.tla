--------------------------- MODULE NfsQueueProofs ---------------------------
(***************************************************************************)
(* Lemmas about the queues of NfsThreads, its inductive invariant, and the *)
(* parts of it that do not depend on where the PDUs are: types, contexts,  *)
(* and what the service thread has in hand.                                *)
(***************************************************************************)
EXTENDS NfsThreads, TLAPS, FiniteSetTheorems

\* A leaf that names no prover is tried with these in turn: the short limits first, then
\* the longer ones, which only a busy machine needs.
USE SMT, Zenon, SMTT(60), ZenonT(60), SMTT(180)

-----------------------------------------------------------------------------
(* Queues: sequences that list the members of a set once each.             *)

IsQueue(q, Q) == q \in Seq(Threads) /\ IsInjective(q) /\ Range(q) = Q

\* rpc_enqueue: a PDU that is not in the queue goes to its end.
LEMMA AppendQueue ==
    ASSUME NEW q, NEW Q, IsQueue(q, Q), NEW t \in Threads, t \notin Q
    PROVE  IsQueue(Append(q, t), Q \cup {t})
<1> DEFINE r == Append(q, t)
<1>1. /\ q \in Seq(Threads) /\ Len(q) \in Nat /\ DOMAIN q = 1..Len(q)
      /\ r \in Seq(Threads) /\ Len(r) = Len(q) + 1 /\ DOMAIN r = 1..(Len(q) + 1)
      /\ r[Len(q) + 1] = t /\ \A i \in 1..Len(q) : r[i] = q[i]
  BY DEF IsQueue
<1>2. /\ \A i \in 1..Len(q) : q[i] \in Q
      /\ \A x \in Q : \E i \in 1..Len(q) : q[i] = x
      /\ \A i, j \in 1..Len(q) : q[i] = q[j] => i = j
  BY <1>1 DEF IsQueue, Range, IsInjective
<1> HIDE DEF r
<1>3. IsInjective(r)
  BY <1>1, <1>2 DEF IsInjective
<1>4. Range(r) = Q \cup {t}
  <2>1. ASSUME NEW x \in Range(r) PROVE x \in Q \cup {t}
    BY <1>1, <1>2, <2>1 DEF Range
  <2>2. ASSUME NEW x \in Q \cup {t} PROVE x \in Range(r)
    BY <1>1, <1>2, <2>2 DEF Range
  <2>. QED  BY <2>1, <2>2
<1>. QED  BY <1>1, <1>3, <1>4 DEF IsQueue, r

\* The first n PDUs leave a queue.
LEMMA SplitQueue ==
    ASSUME NEW q, NEW Q, IsQueue(q, Q), NEW n \in 0..Len(q)
    PROVE  LET sent == {q[i] : i \in 1..n}
           IN  /\ sent \subseteq Q
               /\ IsQueue(SubSeq(q, n + 1, Len(q)), Q \ sent)
<1> DEFINE sent == {q[i] : i \in 1..n}
           r == SubSeq(q, n + 1, Len(q))
<1>1. /\ q \in Seq(Threads) /\ Len(q) \in Nat /\ n \in Nat
      /\ \A i \in 1..Len(q) : q[i] \in Q
      /\ \A x \in Q : \E i \in 1..Len(q) : q[i] = x
      /\ \A i, j \in 1..Len(q) : q[i] = q[j] => i = j
  BY DEF IsQueue, Range, IsInjective
<1>2. /\ r \in Seq(Threads) /\ DOMAIN r = 1..(Len(q) - n)
      /\ \A i \in 1..(Len(q) - n) : r[i] = q[n + i]
  BY <1>1
<1> HIDE DEF r
<1>3. IsInjective(r)
  <2> SUFFICES ASSUME NEW i \in DOMAIN r, NEW j \in DOMAIN r, r[i] = r[j] PROVE i = j
    BY DEF IsInjective
  <2>1. n + i \in 1..Len(q) /\ n + j \in 1..Len(q)
    BY <1>1, <1>2
  <2>. QED  BY <1>1, <1>2, <2>1
<1>4. Range(r) = Q \ sent
  <2>1. ASSUME NEW x \in Range(r) PROVE x \in Q \ sent
    <3>1. PICK i \in 1..(Len(q) - n) : x = q[n + i]
      BY <1>2, <2>1 DEF Range
    <3>2. n + i \in 1..Len(q) /\ n + i \notin 1..n
      BY <1>1
    <3>. QED  BY <1>1, <3>1, <3>2
  <2>2. ASSUME NEW x \in Q \ sent PROVE x \in Range(r)
    <3>1. PICK i \in 1..Len(q) : q[i] = x
      BY <1>1, <2>2
    <3>2. i > n
      BY <1>1, <2>2, <3>1
    <3>3. i - n \in 1..(Len(q) - n) /\ r[i - n] = q[i]
      BY <1>1, <1>2, <3>1, <3>2
    <3>. QED  BY <1>2, <3>1, <3>3 DEF Range
  <2>. QED  BY <2>1, <2>2
<1>5. sent \subseteq Q
  BY <1>1
<1>. QED  BY <1>2, <1>3, <1>4, <1>5 DEF IsQueue, r

\* The first PDU leaves a queue.
LEMMA TailQueue ==
    ASSUME NEW q, NEW Q, IsQueue(q, Q), q # <<>>
    PROVE  Head(q) \in Q /\ IsQueue(Tail(q), Q \ {Head(q)})
<1>1. q \in Seq(Threads) /\ Len(q) \in Nat /\ 1 \in 0..Len(q) /\ 1 \in 1..Len(q)
  BY DEF IsQueue
<1>2. Tail(q) = SubSeq(q, 2, Len(q)) /\ Head(q) = q[1]
  BY <1>1
<1>3. {q[i] : i \in 1..1} = {q[1]}
  OBVIOUS
<1>4. IsQueue(SubSeq(q, 1 + 1, Len(q)), Q \ {q[i] : i \in 1..1})
  BY <1>1, SplitQueue, Zenon, ZenonT(60)
<1>5. Head(q) \in Q
  BY <1>1, <1>2 DEF IsQueue, Range
<1>6. 1 + 1 = 2
  OBVIOUS
<1>. QED  BY <1>2, <1>3, <1>4, <1>5, <1>6, Zenon, ZenonT(60)

\* The PDUs behind position i move up by one.
LEMMA UnlinkEffect ==
    ASSUME NEW q \in Seq(Threads), NEW i \in 1..Len(q)
    PROVE  LET r == Unlinked(q, i)
           IN  /\ r \in Seq(Threads)
               /\ Len(r) = Len(q) - 1
               /\ \A k \in 1..(Len(q) - 1) : r[k] = IF k < i THEN q[k] ELSE q[k + 1]
<1> DEFINE r == Unlinked(q, i)
           n == Len(q)
           before == SubSeq(q, 1, i - 1)
           behind == SubSeq(q, i + 1, n)
<1>1. n \in Nat /\ i \in 1..n
  OBVIOUS
<1>2. /\ before \in Seq(Threads) /\ Len(before) = i - 1
      /\ \A k \in 1..(i - 1) : before[k] = q[k]
  BY <1>1
<1>3. /\ behind \in Seq(Threads) /\ Len(behind) = n - i
      /\ \A k \in 1..(n - i) : behind[k] = q[k + i]
  BY <1>1
<1>4. r = before \o behind
  BY DEF Unlinked
<1> HIDE DEF r, before, behind
<1>5. /\ r \in Seq(Threads) /\ Len(r) = Len(before) + Len(behind)
      /\ \A k \in 1..(Len(before) + Len(behind)) :
            r[k] = IF k <= Len(before) THEN before[k] ELSE behind[k - Len(before)]
  <2>1. before \in Seq(Threads) /\ behind \in Seq(Threads)
    BY <1>2, <1>3
  <2>. QED  BY <1>4, <2>1
<1>6. Len(r) = n - 1
  BY <1>1, <1>2, <1>3, <1>5
<1>7. ASSUME NEW k \in 1..(n - 1) PROVE r[k] = IF k < i THEN q[k] ELSE q[k + 1]
  <2>1. r[k] = IF k <= i - 1 THEN before[k] ELSE behind[k - (i - 1)]
    BY <1>1, <1>2, <1>3, <1>5
  <2>2. CASE k < i
    BY <1>1, <1>2, <2>1, <2>2
  <2>3. CASE ~(k < i)
    <3>1. k - (i - 1) \in 1..(n - i) /\ (k - (i - 1)) + i = k + 1 /\ ~(k <= i - 1)
      BY <1>1, <2>3
    <3>. QED  BY <1>3, <2>1, <2>3, <3>1
  <2>. QED  BY <2>2, <2>3
<1>. QED  BY <1>5, <1>6, <1>7 DEF r

\* A PDU of the queue is the first one with its address.
LEMMA RemoveIsUnlink ==
    ASSUME NEW q, NEW Q, IsQueue(q, Q), NEW i \in 1..Len(q)
    PROVE  rpc_remove_pdu_from_queue(q, q[i]) = Unlinked(q, i)
<1>1. q \in Seq(Threads) /\ \A j, k \in 1..Len(q) : q[j] = q[k] => j = k
  BY DEF IsQueue, IsInjective
<1>2. (CHOOSE k \in DOMAIN q : q[k] = q[i]) = i /\ q[i] \in Range(q)
  BY <1>1 DEF Range
<1>. QED  BY <1>2, Zenon, ZenonT(60) DEF rpc_remove_pdu_from_queue

\* A PDU that is not there is not removed.
LEMMA RemoveAbsent ==
    ASSUME NEW q, NEW Q, IsQueue(q, Q), NEW t, t \notin Q
    PROVE  rpc_remove_pdu_from_queue(q, t) = q
BY DEF IsQueue, rpc_remove_pdu_from_queue

\* A PDU is taken off its queue, wherever it is.
LEMMA RemoveQueue ==
    ASSUME NEW q, NEW Q, IsQueue(q, Q), NEW t
    PROVE  IsQueue(rpc_remove_pdu_from_queue(q, t), Q \ {t})
<1>1. CASE t \notin Q
  BY <1>1, RemoveAbsent
<1>2. CASE t \in Q
  <2>1. PICK i \in 1..Len(q) : q[i] = t
    BY <1>2 DEF IsQueue, Range
  <2> DEFINE r == Unlinked(q, i)
  <2>2. rpc_remove_pdu_from_queue(q, t) = r
    BY <2>1, RemoveIsUnlink
  <2>3. /\ q \in Seq(Threads) /\ Len(q) \in Nat
        /\ \A j \in 1..Len(q) : q[j] \in Q
        /\ \A x \in Q : \E j \in 1..Len(q) : q[j] = x
        /\ \A j, k \in 1..Len(q) : q[j] = q[k] => j = k
    BY DEF IsQueue, Range, IsInjective
  <2>4. /\ r \in Seq(Threads) /\ DOMAIN r = 1..(Len(q) - 1)
        /\ \A k \in 1..(Len(q) - 1) : r[k] = IF k < i THEN q[k] ELSE q[k + 1]
    <3>1. /\ r \in Seq(Threads) /\ Len(r) = Len(q) - 1
          /\ \A k \in 1..(Len(q) - 1) : r[k] = IF k < i THEN q[k] ELSE q[k + 1]
      BY <2>3, UnlinkEffect, Zenon, ZenonT(60)
    <3> HIDE DEF r
    <3>. QED  BY <2>3, <3>1
  <2> HIDE DEF r
  <2>5. IsInjective(r)
    <3> SUFFICES ASSUME NEW j \in DOMAIN r, NEW k \in DOMAIN r, r[j] = r[k] PROVE j = k
      BY DEF IsInjective
    <3> DEFINE At1(x) == IF x < i THEN x ELSE x + 1
    <3>1. /\ At1(j) \in 1..Len(q) /\ At1(k) \in 1..Len(q)
          /\ r[j] = q[At1(j)] /\ r[k] = q[At1(k)] /\ (At1(j) = At1(k) => j = k)
      BY <2>3, <2>4
    <3> HIDE DEF At1
    <3>. QED  BY <2>3, <3>1, Zenon, ZenonT(60)
  <2>6. ASSUME NEW x \in Range(r) PROVE x \in Q \ {t}
    <3>1. PICK k \in 1..(Len(q) - 1) : x = r[k]
      BY <2>4, <2>6 DEF Range
    <3>2. k \in 1..Len(q) /\ k + 1 \in 1..Len(q)
      BY <2>3
    <3>. QED  BY <2>1, <2>3, <2>4, <3>1, <3>2
  <2>7. ASSUME NEW x \in Q \ {t} PROVE x \in Range(r)
    <3>1. PICK k \in 1..Len(q) : q[k] = x
      BY <2>3, <2>7
    <3>2. CASE k < i
      <4>1. k \in 1..(Len(q) - 1) /\ r[k] = q[k]
        BY <2>3, <2>4, <3>2
      <4>. QED  BY <2>4, <3>1, <4>1 DEF Range
    <3>3. CASE k > i
      <4>1. k - 1 \in 1..(Len(q) - 1) /\ r[k - 1] = q[k]
        BY <2>3, <2>4, <3>3
      <4>. QED  BY <2>4, <3>1, <4>1 DEF Range
    <3>. QED  BY <2>1, <2>7, <3>1, <3>2, <3>3
  <2>. QED  BY <2>2, <2>4, <2>5, <2>6, <2>7 DEF IsQueue
<1>. QED  BY <1>1, <1>2

\* The chains of waitpdu[], walked in some order.
LEMMA SetQueue ==
    ASSUME NEW S \in SUBSET Threads PROVE IsQueue(Walked(S), S)
<1> DEFINE n == Cardinality(S)
           f == Walked(S)
<1>1. IsFiniteSet(S) /\ n \in Nat /\ ExistsBijection(1..n, S)
  BY ThreadsAssumption, FS_Subset, FS_CardinalityType
<1>2. PICK g : g \in Bijection(1..n, S)
  BY <1>1 DEF ExistsBijection
<1>3. g \in [1..n -> S] /\ IsInjective(g)
  BY <1>2 DEF Bijection, Injection
<1>4. f \in [1..n -> S] /\ IsInjective(f)
  BY <1>3 DEF Walked
<1>5. f \in Injection(1..n, S)
  BY <1>4 DEF Injection
<1>6. Cardinality(1..n) = n
  BY <1>1, FS_Interval
<1> HIDE DEF f
<1>7. f \in Surjection(1..n, S)
  BY <1>1, <1>5, <1>6, FS_Injection
<1>8. Range(f) = S
  BY <1>4, <1>7 DEF Surjection, Range
<1>9. f \in Seq(Threads)
  <2>1. f \in Seq(S)
    BY <1>1, <1>4
  <2>. QED  BY <2>1
<1>. QED  BY <1>4, <1>8, <1>9 DEF IsQueue, f

\* Two queues without a common PDU, one behind the other.
LEMMA ConcatQueue ==
    ASSUME NEW q, NEW Q, IsQueue(q, Q), NEW r, NEW R, IsQueue(r, R), Q \cap R = {}
    PROVE  IsQueue(q \o r, Q \cup R)
<1> DEFINE s == q \o r
<1>1. /\ q \in Seq(Threads) /\ Len(q) \in Nat /\ r \in Seq(Threads) /\ Len(r) \in Nat
      /\ \A i \in 1..Len(q) : q[i] \in Q
      /\ \A x \in Q : \E i \in 1..Len(q) : q[i] = x
      /\ \A i, j \in 1..Len(q) : q[i] = q[j] => i = j
  BY DEF IsQueue, Range, IsInjective
<1>2. /\ \A i \in 1..Len(r) : r[i] \in R
      /\ \A x \in R : \E i \in 1..Len(r) : r[i] = x
      /\ \A i, j \in 1..Len(r) : r[i] = r[j] => i = j
  BY DEF IsQueue, Range, IsInjective
<1>3. /\ s \in Seq(Threads) /\ DOMAIN s = 1..(Len(q) + Len(r))
      /\ \A i \in 1..(Len(q) + Len(r)) : s[i] = IF i <= Len(q) THEN q[i] ELSE r[i - Len(q)]
  BY <1>1
<1> HIDE DEF s
<1>4. ASSUME NEW i \in DOMAIN s
      PROVE  \/ i \in 1..Len(q) /\ s[i] = q[i] /\ s[i] \in Q
             \/ i - Len(q) \in 1..Len(r) /\ s[i] = r[i - Len(q)] /\ s[i] \in R
  BY <1>1, <1>2, <1>3
<1>5. IsInjective(s)
  <2> SUFFICES ASSUME NEW i \in DOMAIN s, NEW j \in DOMAIN s, s[i] = s[j] PROVE i = j
    BY DEF IsInjective
  <2>1. i \in Int /\ j \in Int /\ Len(q) \in Int
    BY <1>1, <1>3
  <2>. QED  BY <1>1, <1>2, <1>4, <2>1
<1>6. ASSUME NEW x \in Q \cup R PROVE x \in Range(s)
  <2>1. CASE x \in Q
    BY <1>1, <1>3, <2>1 DEF Range
  <2>2. CASE x \in R
    <3>1. PICK i \in 1..Len(r) : r[i] = x
      BY <1>2, <2>2
    <3>2. Len(q) + i \in DOMAIN s /\ s[Len(q) + i] = x
      BY <1>1, <1>3, <3>1
    <3>. QED  BY <3>2 DEF Range
  <2>. QED  BY <1>6, <2>1, <2>2
<1>7. ASSUME NEW x \in Range(s) PROVE x \in Q \cup R
  BY <1>4, <1>7 DEF Range
<1>. QED  BY <1>3, <1>5, <1>6, <1>7 DEF IsQueue, s

\* rpc_return_to_outqueue, for all of waitpdu.
LEMMA RequeuedQueue ==
    ASSUME NEW q, NEW Q, IsQueue(q, Q), NEW S \in SUBSET Threads, Q \cap S = {}
    PROVE  IsQueue(Requeued(q, S), Q \cup S)
<1>1. IsQueue(Walked(S), S)
  BY SetQueue
<1>2. CASE q = <<>>
  <2>1. Q = {}
    BY <1>2 DEF IsQueue, Range
  <2>. QED  BY <1>1, <1>2, <2>1 DEF Requeued
<1>3. CASE q # <<>>
  <2> DEFINE h == Head(q)
  <2>1. h \in Q /\ IsQueue(Tail(q), Q \ {h}) /\ h \in Threads
    BY <1>3, TailQueue DEF IsQueue
  <2>2. IsQueue(<<h>>, {h})
    BY <2>1 DEF IsQueue, IsInjective, Range
  <2> HIDE DEF h
  <2>3. IsQueue(<<h>> \o Walked(S), {h} \cup S)
    BY <1>1, <2>1, <2>2, ConcatQueue
  <2>4. ({h} \cup S) \cap (Q \ {h}) = {} /\ ({h} \cup S) \cup (Q \ {h}) = Q \cup S
    BY <2>1
  <2>5. IsQueue((<<h>> \o Walked(S)) \o Tail(q), ({h} \cup S) \cup (Q \ {h}))
    BY <2>1, <2>3, <2>4, ConcatQueue
  <2>. QED  BY <1>3, <2>4, <2>5, Zenon, ZenonT(60) DEF Requeued, h
<1>. QED  BY <1>2, <1>3

-----------------------------------------------------------------------------
(* The inductive invariant.  NoLostWakeup alone does not say where a PDU   *)
(* is before its thread waits for it (Placed), nor that the accounting of  *)
(* a write finds the queue as the write left it (OneWriter).               *)

Actors == Threads \cup {Svc}
Flying == {t \in Threads : pc[t] \in {"head", "write", "account", "wait"}}
Posted == {t \in Threads : sem[t] = 1}

Calls == Threads \X (1..MaxCalls)
Bytes == [call : Calls, xid : Nat, part : 1..Size]
Replies == [xid : Nat, of : Calls]

TypeThreads ==
    /\ pc \in [Threads -> {"idle", "context", "open", "allocate", "queue", "head", "write",
                           "account", "wait"}]
    /\ made \in [Threads -> 0..MaxCalls]
    /\ \A t \in Threads : pc[t] # "idle" => made[t] >= 1
    /\ xid \in Nat /\ pxid \in [Threads -> Nat]
    /\ sem \in [Threads -> 0..1]
    /\ got \in [Threads -> {NoStatus, Failed} \cup Calls]
    /\ ctx \in Seq(Threads)
    /\ nfs4_open_call_mutex \in Threads \cup {Free}

TypeQueues ==
    /\ outqueue \in Seq(Threads) /\ waitpdu \subseteq Threads /\ num_done \in 0..1
    /\ todo \in Seq(Threads)
    /\ rpc_mutex \in Actors \cup {Free} /\ written \in [Actors -> Nat]

TypeConn ==
    /\ conn \in {"up", "closing", "closed", "connecting"} /\ num_retries \in 0..1
    /\ spc \in {"off", "poll", "reply", "write", "account", "requeue", "purge", "purging",
                "purge2", "purging2", "expired"}
    /\ stream \in Seq(Bytes) /\ replies \in Seq(Replies)

\* A PDU that was queued and whose call has not returned is in one place: a queue, the
\* hands of the service thread, or gone, and then its semaphore is posted.
Placed ==
    /\ IsInjective(outqueue) /\ IsInjective(todo)
    /\ Range(outqueue) \cap waitpdu = {}
    /\ Range(outqueue) \cap Range(todo) = {} /\ waitpdu \cap Range(todo) = {}
    /\ Posted \cap (Range(outqueue) \cup waitpdu \cup Range(todo)) = {}
    /\ Posted \cup Range(outqueue) \cup waitpdu \cup Range(todo) = Flying

\* Where the service thread is when it has PDUs in hand.
InHand ==
    /\ todo # <<>> => spc \in {"reply", "purging", "purging2", "expired"}
    /\ spc = "reply" => Len(todo) = 1

\* What the holder of the mutex has written and not accounted for yet.
Pending == IF rpc_mutex = Free THEN 0 ELSE written[rpc_mutex]

\* One thread at a time is between writev() and the end of its accounting, and the
\* queue holds all it has written.
OneWriter ==
    /\ \A a \in Actors : IF At(a, "account") THEN rpc_mutex = a ELSE written[a] = 0
    /\ num_done + Pending <= Size * Len(outqueue)

\* A thread that is about to add a context has none.
ContextOK ==
    /\ IsInjective(ctx)
    /\ \A t \in Threads : pc[t] = "context" => t \notin Range(ctx)

IInv == TypeThreads /\ TypeQueues /\ TypeConn /\ Placed /\ InHand /\ OneWriter /\ ContextOK

\* The names of the service thread and of the free mutex are no thread's.
LEMMA Names == Svc \notin Threads /\ Free \notin Threads /\ Svc # Free
BY ThreadsAssumption, Zenon, ZenonT(60) DEF Svc, Free

\* The invariant holds before the first call.
LEMMA InitIInv == Init => IInv
<1> SUFFICES ASSUME Init PROVE IInv
  OBVIOUS
<1>1. TypeThreads
  BY ThreadsAssumption DEF Init, TypeThreads
<1>2. TypeQueues /\ TypeConn
  BY DEF Init, TypeQueues, TypeConn, Actors
<1>3. Placed
  <2>1. outqueue = <<>> /\ todo = <<>> /\ waitpdu = {} /\ Range(<<>>) = {} /\ IsInjective(<<>>)
    BY DEF Init, Range, IsInjective
  <2>2. Posted = {} /\ Flying = {}
    BY DEF Init, Posted, Flying
  <2>. QED  BY <2>1, <2>2 DEF Placed
<1>4. InHand
  BY DEF Init, InHand
<1>5. OneWriter
  <2>1. \A a \in Actors : ~At(a, "account") /\ written[a] = 0
    BY DEF Init, At, Actors
  <2>2. num_done + Pending <= Size * Len(outqueue)
    BY DEF Init, Pending, Size
  <2>. QED  BY <2>1, <2>2 DEF OneWriter
<1>6. ContextOK
  BY DEF Init, ContextOK, IsInjective, Range
<1>. QED  BY <1>1, <1>2, <1>3, <1>4, <1>5, <1>6 DEF IInv

-----------------------------------------------------------------------------
(* Contexts.                                                               *)

\* nfs_init_cb_data: the list of contexts grows only by a thread that is not in it.
LEMMA ContextStep == ASSUME IInv, [Next]_vars PROVE ContextOK'
<1>1. TypeThreads /\ ContextOK
  BY DEF IInv
<1>2. ASSUME UNCHANGED ctx, \A t \in Threads : pc'[t] = "context" => pc[t] = "context"
      PROVE  ContextOK'
  BY <1>1, <1>2 DEF ContextOK
<1>3. ASSUME NEW t \in Threads, nfs_init_cb_data(t) PROVE ContextOK'
  BY <1>1, <1>3
       DEF nfs_init_cb_data, Goto, find_thread_context, AfterInit, ContextOK, TypeThreads
<1>4. ASSUME NEW t \in Threads, add_thread_context(t) PROVE ContextOK'
  <2>1. /\ ctx' = <<t>> \o ctx /\ t \notin Range(ctx) /\ ctx \in Seq(Threads)
        /\ IsQueue(ctx, Range(ctx))
    BY <1>1, <1>4 DEF add_thread_context, ContextOK, IsQueue, TypeThreads
  <2>2. IsQueue(<<t>>, {t})
    BY DEF IsQueue, IsInjective, Range
  <2>3. IsQueue(ctx', {t} \cup Range(ctx))
    BY <2>1, <2>2, ConcatQueue
  <2>4. Range(ctx') = {t} \cup Range(ctx) /\ IsInjective(ctx')
    BY <2>3 DEF IsQueue
  <2>5. \A u \in Threads : pc'[u] = "context" => pc[u] = "context" /\ u # t
    BY <1>1, <1>4 DEF add_thread_context, Goto, AfterInit, TypeThreads
  <2>. QED  BY <1>1, <2>4, <2>5 DEF ContextOK
<1>5. ASSUME NEW t \in Threads,
             \/ lock_open_call(t) \/ rpc_allocate_pdu(t) \/ rpc_queue_pdu(t) \/ read_head(t)
             \/ wait_for_nfs_reply(t)
      PROVE  ContextOK'
  <2>1. UNCHANGED ctx /\ \E l \in {"allocate", "queue", "head", "write", "wait", "idle"} : Goto(t, l)
    BY <1>5 DEF lock_open_call, rpc_allocate_pdu, rpc_queue_pdu, read_head, wait_for_nfs_reply
  <2>. QED  BY <1>1, <1>2, <2>1 DEF Goto, TypeThreads
<1>6. ASSUME NEW a \in Actors, writev(a) \/ account(a) PROVE ContextOK'
  <2>1. UNCHANGED ctx /\ \E l \in {"account", "poll", "wait"} : GotoW(a, l)
    BY <1>6 DEF writev, account, AfterWrite
  <2>2. \A t \in Threads : pc'[t] = "context" => pc[t] = "context"
    BY <1>1, <2>1 DEF GotoW, Goto, TypeThreads, Actors
  <2>. QED  BY <1>2, <2>1, <2>2
<1>7. ASSUME UNCHANGED <<pc, ctx>> PROVE ContextOK'
  BY <1>2, <1>7
<1>8. CASE Service
  <2>1. CASE writev(Svc) \/ account(Svc)
    BY <1>6, <2>1 DEF Actors
  <2>2. CASE ~(writev(Svc) \/ account(Svc))
    <3>1. UNCHANGED <<pc, ctx>>
      BY <1>8, <2>2, Zenon, ZenonT(60)
      DEF Service, rpc_read_from_socket, rpc_process_reply, rpc_which_events, rpc_timeout_scan,
          rpc_reconnect_requeue, requeue_waitpdu, reconnect_cb, purge_outqueue, purge_callback,
          purge_unlock, purge_waitpdu, purge_end, nfs_mt_service_thread_start,
          nfs_mt_service_thread_stop, appVars
    <3>. QED  BY <1>7, <3>1
  <2>. QED  BY <2>1, <2>2
<1>9. CASE Server \/ Hangup \/ UNCHANGED vars
  BY <1>7, <1>9 DEF Server, Hangup, vars, appVars
<1>10. ASSUME NEW t \in Threads, App(t) PROVE ContextOK'
  BY <1>3, <1>4, <1>5, <1>6, <1>10 DEF App, Actors
<1>. QED  BY <1>8, <1>9, <1>10 DEF Next

-----------------------------------------------------------------------------
(* Types.                                                                  *)

\* What is still to be sent, as rpc_write_to_socket hands it to writev().
LEMMA UnsentType ==
    ASSUME IInv
    PROVE  /\ Unsent \in Seq(Bytes)
           /\ Len(Unsent) = Size * Len(outqueue) - num_done
           /\ \A i \in 1..(Size * Len(outqueue) - num_done) : Unsent[i] = Part(num_done + i)
<1> DEFINE n == Size * Len(outqueue) - num_done
<1>1. Len(outqueue) \in Nat /\ num_done \in 0..1 /\ Size = 2
  BY DEF IInv, TypeQueues, Size
<1>2. n \in Nat
  <2>1. CASE rpc_mutex = Free
    BY <1>1, <2>1 DEF IInv, OneWriter, Pending
  <2>2. CASE rpc_mutex # Free
    <3>1. written[rpc_mutex] \in Nat
      BY <2>2 DEF IInv, TypeQueues
    <3>. QED  BY <1>1, <2>2, <3>1 DEF IInv, OneWriter, Pending
  <2>. QED  BY <2>1, <2>2
<1>3. ASSUME NEW i \in 1..n PROVE Part(num_done + i) \in Bytes
  <2> DEFINE k == (((num_done + i) - 1) \div Size) + 1
             t == outqueue[k]
  <2>1. k \in 1..Len(outqueue) /\ (((num_done + i) - 1) % Size) + 1 \in 1..Size
    BY <1>1, <1>3
  <2>2. t \in Threads /\ t \in Range(outqueue)
    BY <2>1 DEF IInv, TypeQueues, Range
  <2>3. t \in Flying
    BY <2>2 DEF IInv, Placed
  <2>4. Call(t) \in Calls /\ pxid[t] \in Nat
    BY <2>2, <2>3 DEF IInv, TypeThreads, Flying, Call, Calls
  <2>5. Part(num_done + i) = [call |-> Call(t), xid |-> pxid[t],
                              part |-> (((num_done + i) - 1) % Size) + 1]
    BY Zenon, ZenonT(60) DEF Part
  <2> HIDE DEF k, t
  <2>. QED  BY <2>1, <2>4, <2>5 DEF Bytes
<1>4. Unsent = [i \in 1..n |-> Part(num_done + i)]
  BY DEF Unsent
<1> HIDE DEF n
<1>5. Unsent \in [1..n -> Bytes]
  BY <1>3, <1>4
<1>6. Unsent \in Seq(Bytes) /\ Len(Unsent) = n
  BY <1>2, <1>5
<1>. QED  BY <1>4, <1>6, Zenon, ZenonT(60) DEF n

\* What rpc_find_pdu and rpc_timeout_scan do with the PDU they take.
Taken(t) ==
    /\ t \in Range(outqueue) \cup waitpdu
    /\ todo' = <<t>>
    /\ outqueue' = rpc_remove_pdu_from_queue(outqueue, t) /\ waitpdu' = waitpdu \ {t}
    /\ num_done' = IF outqueue # <<>> /\ Head(outqueue) = t THEN 0 ELSE num_done

\* A reply nobody waits for changes nothing; another one gives its PDU its status.
LEMMA ReadEffect ==
    ASSUME IInv, rpc_read_from_socket
    PROVE  \/ UNCHANGED <<spc, todo, outqueue, waitpdu, num_done, got>>
           \/ \E t \in Threads :
                /\ Taken(t) /\ spc' = "reply" /\ pxid[t] = Head(replies).xid
                /\ got' = [got EXCEPT ![t] = Head(replies).of]
<1> DEFINE x == Head(replies).xid
<1>1. CASE Found(x) = {}
  BY <1>1 DEF rpc_read_from_socket, queueVars
<1>2. CASE Found(x) # {}
  <2>1. PICK t \in Found(x) :
           /\ todo' = <<t>> /\ GotoS("reply")
           /\ outqueue' = rpc_remove_pdu_from_queue(outqueue, t) /\ waitpdu' = waitpdu \ {t}
           /\ num_done' = IF outqueue # <<>> /\ Head(outqueue) = t THEN 0 ELSE num_done
           /\ got' = [got EXCEPT ![t] = Head(replies).of]
    BY <1>2, Zenon, ZenonT(60) DEF rpc_read_from_socket
  <2>2. t \in Range(outqueue) \cup waitpdu /\ pxid[t] = x
    BY <2>1 DEF Found, WithXid
  <2>3. t \in Threads
    BY <2>2 DEF IInv, TypeQueues, Range
  <2>. QED  BY <2>1, <2>2, <2>3, Zenon, ZenonT(60) DEF Taken, GotoS
<1>. QED  BY <1>1, <1>2

\* No step of a thread, of the service thread or of the server breaks the types of the
\* calls: cb_data_is_finished posts a semaphore that is not posted yet.
LEMMA TypeThreadsStep == ASSUME IInv, [Next]_vars PROVE TypeThreads'
<1>1. TypeThreads
  BY DEF IInv
<1>2. ASSUME UNCHANGED <<pc, made, pxid, got, sem, ctx, xid, nfs4_open_call_mutex>>
      PROVE  TypeThreads'
  BY <1>1, <1>2, Zenon, ZenonT(60) DEF TypeThreads
<1>3. ASSUME NEW t \in Threads, nfs_init_cb_data(t) PROVE TypeThreads'
  BY <1>1, <1>3, ThreadsAssumption DEF nfs_init_cb_data, Goto, AfterInit, TypeThreads
<1>4. ASSUME NEW t \in Threads, add_thread_context(t) PROVE TypeThreads'
  BY <1>1, <1>4 DEF add_thread_context, Goto, AfterInit, TypeThreads
<1>5. ASSUME NEW t \in Threads, lock_open_call(t) \/ rpc_allocate_pdu(t) PROVE TypeThreads'
  <2>1. CASE lock_open_call(t)
    BY <1>1, <2>1 DEF lock_open_call, Goto, TypeThreads
  <2>2. CASE rpc_allocate_pdu(t)
    BY <1>1, <2>2 DEF rpc_allocate_pdu, next_xid, Goto, TypeThreads
  <2>. QED  BY <1>5, <2>1, <2>2
<1>6. ASSUME NEW t \in Threads, rpc_queue_pdu(t) \/ read_head(t) PROVE TypeThreads'
  BY <1>1, <1>6, Zenon, ZenonT(60) DEF rpc_queue_pdu, read_head, Goto, TypeThreads
<1>7. ASSUME NEW t \in Threads, wait_for_nfs_reply(t) PROVE TypeThreads'
  BY <1>1, <1>7 DEF wait_for_nfs_reply, Goto, TypeThreads
<1>8. ASSUME NEW a \in Actors, writev(a) \/ account(a) PROVE TypeThreads'
  <2>1. UNCHANGED <<made, pxid, got, sem, ctx, xid, nfs4_open_call_mutex>>
    BY <1>8, Zenon, ZenonT(60) DEF writev, account
  <2>2. \/ UNCHANGED pc
        \/ \E t \in Threads, l \in {"account", "wait"} :
              Goto(t, l) /\ pc[t] \in {"write", "account"}
    BY <1>8 DEF writev, account, GotoW, AfterWrite, At, Actors
  <2>. QED  BY <1>1, <2>1, <2>2, Zenon, ZenonT(60) DEF Goto, TypeThreads
<1>9. ASSUME NEW t \in Threads, cb_data_is_finished(t), t \notin Posted,
             UNCHANGED <<pc, made, pxid, got, ctx, xid>>
      PROVE  TypeThreads'
  <2>1. sem' = [sem EXCEPT ![t] = 1]
    <3>1. sem \in [Threads -> 0..1] /\ sem[t] = 0 /\ sem' = [sem EXCEPT ![t] = sem[t] + 1]
      BY <1>1, <1>9 DEF cb_data_is_finished, sem_post, Posted, TypeThreads
    <3>. QED  BY <3>1
  <2>2. nfs4_open_call_mutex' = nfs4_open_call_mutex
    BY <1>1, <1>9, Names DEF cb_data_is_finished, Unlocked, TypeThreads
  <2>. QED  BY <1>1, <1>9, <2>1, <2>2 DEF TypeThreads
<1>10. ASSUME todo # <<>> PROVE Head(todo) \in Threads /\ Head(todo) \notin Posted
  <2>1. IsQueue(todo, Range(todo))
    BY DEF IInv, TypeQueues, Placed, IsQueue
  <2>2. Head(todo) \in Range(todo)
    BY <1>10, <2>1, TailQueue, Zenon, ZenonT(60)
  <2>. QED  BY <1>10, <2>2 DEF IInv, TypeQueues, Placed
<1>11. CASE rpc_process_reply \/ purge_callback
  <2>1. todo # <<>>
    BY <1>11 DEF IInv, InHand, TypeQueues, rpc_process_reply, purge_callback
  <2>2. cb_data_is_finished(Head(todo)) /\ UNCHANGED <<pc, made, pxid, got, ctx, xid>>
    BY <1>11 DEF rpc_process_reply, purge_callback
  <2>. QED  BY <1>9, <1>10, <2>1, <2>2
<1>12. ASSUME UNCHANGED <<pc, made, pxid, sem, ctx, xid, nfs4_open_call_mutex>>,
              got' \in [Threads -> {NoStatus, Failed} \cup Calls]
       PROVE  TypeThreads'
  BY <1>1, <1>12 DEF TypeThreads
<1>13. CASE rpc_read_from_socket
  <2>1. Head(replies) \in Replies
    BY <1>13 DEF rpc_read_from_socket, IInv, TypeConn
  <2>2. Head(replies).of \in Calls
    BY <2>1 DEF Replies
  <2>3. \/ UNCHANGED got
        \/ \E t \in Threads : got' = [got EXCEPT ![t] = Head(replies).of]
    BY <1>13, ReadEffect, Zenon, ZenonT(60)
  <2>4. got' \in [Threads -> {NoStatus, Failed} \cup Calls]
    BY <1>1, <2>2, <2>3 DEF TypeThreads
  <2>. QED  BY <1>12, <1>13, <2>4 DEF rpc_read_from_socket
<1>14. CASE rpc_timeout_scan
  <2>1. got' \in [Threads -> {NoStatus, Failed} \cup Calls]
    BY <1>1, <1>14, Zenon, ZenonT(60) DEF rpc_timeout_scan, TypeThreads
  <2>. QED  BY <1>12, <1>14, <2>1 DEF rpc_timeout_scan
<1>15. CASE purge_outqueue \/ purge_waitpdu
  <2>1. got' \in [Threads -> {NoStatus, Failed} \cup Calls]
    BY <1>1, <1>15, Zenon, ZenonT(60) DEF purge_outqueue, purge_waitpdu, TypeThreads
  <2>. QED  BY <1>12, <1>15, <2>1 DEF purge_outqueue, purge_waitpdu
<1>16. CASE \/ rpc_which_events \/ rpc_reconnect_requeue \/ requeue_waitpdu \/ reconnect_cb
            \/ purge_unlock \/ purge_end \/ nfs_mt_service_thread_start
            \/ nfs_mt_service_thread_stop \/ Server \/ Hangup \/ UNCHANGED vars
  <2>1. UNCHANGED <<pc, made, pxid, got, sem, ctx, xid, nfs4_open_call_mutex>>
    BY <1>16, Zenon, ZenonT(60)
    DEF rpc_which_events, rpc_reconnect_requeue, requeue_waitpdu, reconnect_cb, purge_unlock,
        purge_end, nfs_mt_service_thread_start, nfs_mt_service_thread_stop, Server, Hangup,
        vars, appVars
  <2>. QED  BY <1>2, <2>1
<1>17. ASSUME NEW t \in Threads, App(t) PROVE TypeThreads'
  BY <1>3, <1>4, <1>5, <1>6, <1>7, <1>8, <1>17, Zenon, ZenonT(60) DEF App, Actors
<1>18. CASE Service
  BY <1>8, <1>11, <1>13, <1>14, <1>15, <1>16, <1>18, Zenon, ZenonT(60) DEF Service, Actors
<1>. QED  BY <1>16, <1>17, <1>18 DEF Next

-----------------------------------------------------------------------------
(* The service thread's PDUs, and the writers.                             *)

\* A PDU that times out fails.
LEMMA ScanEffect ==
    ASSUME IInv, rpc_timeout_scan
    PROVE  \E t \in Threads : Taken(t) /\ got' = [got EXCEPT ![t] = Failed]
<1>1. PICK t \in Expired :
         /\ todo' = <<t>> /\ got' = [got EXCEPT ![t] = Failed]
         /\ outqueue' = rpc_remove_pdu_from_queue(outqueue, t) /\ waitpdu' = waitpdu \ {t}
         /\ num_done' = IF outqueue # <<>> /\ Head(outqueue) = t THEN 0 ELSE num_done
  BY Zenon, ZenonT(60) DEF rpc_timeout_scan
<1>2. t \in Range(outqueue) \cup waitpdu
  BY <1>1 DEF Expired
<1>3. t \in Threads
  BY <1>2 DEF IInv, TypeQueues, Range
<1>. QED  BY <1>1, <1>2, <1>3, Zenon, ZenonT(60) DEF Taken

\* The service thread has PDUs in hand only between taking them off a queue and the last
\* of their callbacks.
LEMMA InHandStep == ASSUME IInv, [Next]_vars PROVE InHand'
<1>1. InHand /\ todo \in Seq(Threads)
  BY DEF IInv, TypeQueues
<1>2. ASSUME UNCHANGED <<todo, spc>> PROVE InHand'
  BY <1>1, <1>2 DEF InHand
<1>3. ASSUME UNCHANGED todo, todo = <<>>, spc' # "reply" PROVE InHand'
  BY <1>1, <1>3 DEF InHand
<1>4. ASSUME NEW t \in Threads, App(t) PROVE InHand'
  <2>1. UNCHANGED <<todo, spc>>
    BY <1>4, Names, Zenon, ZenonT(60)
    DEF App, nfs_init_cb_data, add_thread_context, lock_open_call, rpc_allocate_pdu,
        rpc_queue_pdu, read_head, writev, account, wait_for_nfs_reply, GotoW
  <2>. QED  BY <1>2, <2>1
<1>5. CASE writev(Svc) \/ account(Svc)
  <2>1. UNCHANGED todo /\ spc \in {"write", "account"} /\ spc' \in {"account", "poll"}
    BY <1>5, Zenon, ZenonT(60) DEF writev, account, At, GotoW, AfterWrite
  <2>. QED  BY <1>1, <1>3, <2>1 DEF InHand
<1>6. CASE rpc_read_from_socket
  <2>1. UNCHANGED <<todo, spc>> \/ \E t \in Threads : todo' = <<t>> /\ spc' = "reply"
    BY <1>6, ReadEffect DEF Taken
  <2>. QED  BY <1>2, <2>1 DEF InHand
<1>7. CASE rpc_process_reply
  <2>1. todo' = Tail(todo) /\ spc' = "poll" /\ spc = "reply"
    BY <1>7 DEF rpc_process_reply, cb_data_is_finished, GotoS
  <2>2. Tail(todo) = <<>>
    BY <1>1, <2>1 DEF InHand
  <2>. QED  BY <2>1, <2>2 DEF InHand
<1>8. CASE rpc_timeout_scan \/ purge_outqueue \/ purge_waitpdu
  BY <1>8 DEF rpc_timeout_scan, purge_outqueue, purge_waitpdu, GotoS, InHand
<1>9. CASE purge_callback
  BY <1>1, <1>9 DEF purge_callback, InHand
<1>10. CASE purge_unlock \/ purge_end
  BY <1>3, <1>10 DEF purge_unlock, purge_end, GotoS
<1>11. CASE \/ rpc_which_events \/ rpc_reconnect_requeue \/ requeue_waitpdu
            \/ nfs_mt_service_thread_start \/ nfs_mt_service_thread_stop
  <2>1. UNCHANGED todo /\ spc \in {"off", "poll", "requeue"} /\ spc' # "reply"
    BY <1>11
    DEF rpc_which_events, rpc_reconnect_requeue, requeue_waitpdu,
        nfs_mt_service_thread_start, nfs_mt_service_thread_stop, GotoS
  <2>. QED  BY <1>1, <1>3, <2>1 DEF InHand
<1>12. CASE reconnect_cb
  BY <1>1, <1>12 DEF reconnect_cb, GotoS, InHand
<1>13. CASE Server \/ Hangup \/ UNCHANGED vars
  BY <1>2, <1>13 DEF Server, Hangup, vars
<1>14. CASE Service
  BY <1>5, <1>6, <1>7, <1>8, <1>9, <1>10, <1>11, <1>12, <1>14, Zenon, ZenonT(60) DEF Service
<1>. QED  BY <1>4, <1>13, <1>14 DEF Next

\* Every writev() leaves whole pieces of PDUs on the connection, and a new connection is
\* empty.
LEMMA TypeConnStep == ASSUME IInv, [Next]_vars PROVE TypeConn'
<1>1. TypeConn
  BY DEF IInv
<1>2. ASSUME UNCHANGED <<conn, num_retries, spc, stream, replies>> PROVE TypeConn'
  BY <1>1, <1>2 DEF TypeConn
<1>3. ASSUME UNCHANGED <<conn, num_retries, stream, replies>>,
             spc' \in {"off", "poll", "reply", "write", "account", "requeue", "purge",
                       "purging", "purge2", "purging2", "expired"}
      PROVE  TypeConn'
  BY <1>1, <1>3 DEF TypeConn
<1>4. ASSUME NEW a \in Actors, writev(a) PROVE TypeConn'
  <2>1. UNCHANGED <<conn, num_retries, replies>> /\ (UNCHANGED spc \/ spc' \in {"poll", "account"})
    BY <1>4 DEF writev, GotoW, AfterWrite
  <2>2. stream' \in Seq(Bytes)
    <3>1. \/ UNCHANGED stream
          \/ \E n \in IF ShortWrites THEN 1..Len(Unsent) ELSE {Len(Unsent)} :
                stream' = stream \o SubSeq(Unsent, 1, n)
      BY <1>4, Zenon, ZenonT(60) DEF writev
    <3>2. Unsent \in Seq(Bytes) /\ Len(Unsent) \in Nat
      BY UnsentType
    <3>3. \A n \in IF ShortWrites THEN 1..Len(Unsent) ELSE {Len(Unsent)} :
             SubSeq(Unsent, 1, n) \in Seq(Bytes)
      BY <3>2
    <3>4. stream \in Seq(Bytes)
      BY <1>1 DEF TypeConn
    <3>5. CASE UNCHANGED stream
      BY <3>4, <3>5
    <3>6. CASE ~UNCHANGED stream
      <4>1. PICK n \in IF ShortWrites THEN 1..Len(Unsent) ELSE {Len(Unsent)} :
                  stream' = stream \o SubSeq(Unsent, 1, n)
        BY <3>1, <3>6, Zenon, ZenonT(60)
      <4> DEFINE W == SubSeq(Unsent, 1, n)
      <4>2. W \in Seq(Bytes)
        BY <3>3
      <4> HIDE DEF W
      <4>3. stream \o W \in Seq(Bytes)
        BY <3>4, <4>2
      <4>. QED  BY <4>1, <4>3 DEF W
    <3>. QED  BY <3>5, <3>6
  <2>. QED  BY <1>1, <2>1, <2>2 DEF TypeConn
<1>5. ASSUME NEW a \in Actors, account(a) PROVE TypeConn'
  <2>1. UNCHANGED <<conn, num_retries, stream, replies>> /\ (UNCHANGED spc \/ spc' = "poll")
    BY <1>5 DEF account, GotoW, AfterWrite, connVars
  <2>. QED  BY <1>1, <2>1 DEF TypeConn
<1>6. ASSUME NEW t \in Threads,
             \/ nfs_init_cb_data(t) \/ add_thread_context(t) \/ lock_open_call(t)
             \/ rpc_allocate_pdu(t) \/ rpc_queue_pdu(t) \/ read_head(t)
             \/ wait_for_nfs_reply(t)
      PROVE  TypeConn'
  <2>1. UNCHANGED <<conn, num_retries, spc, stream, replies>>
    BY <1>6, Zenon, ZenonT(60)
         DEF nfs_init_cb_data, add_thread_context, lock_open_call, rpc_allocate_pdu,
       rpc_queue_pdu, read_head, wait_for_nfs_reply, connVars
  <2>. QED  BY <1>2, <2>1
<1>7. CASE rpc_read_from_socket
  <2>1. /\ replies # <<>> /\ replies' = Tail(replies) /\ UNCHANGED <<conn, num_retries, stream>>
        /\ UNCHANGED spc \/ spc' = "reply"
    BY <1>7, ReadEffect, Zenon, ZenonT(60) DEF rpc_read_from_socket
  <2>. QED  BY <1>1, <2>1 DEF TypeConn
<1>8. CASE \/ rpc_process_reply \/ rpc_which_events \/ rpc_timeout_scan \/ purge_outqueue
           \/ purge_unlock \/ purge_waitpdu \/ purge_end \/ purge_callback
           \/ nfs_mt_service_thread_start \/ nfs_mt_service_thread_stop
  <2>1. /\ UNCHANGED <<conn, num_retries, stream, replies>>
        /\ \/ UNCHANGED spc
           \/ spc' \in {"off", "poll", "write", "purging", "purge2", "purging2", "expired"}
    BY <1>8
    DEF rpc_process_reply, rpc_which_events, rpc_timeout_scan, purge_outqueue, purge_unlock,
        purge_waitpdu, purge_end, purge_callback, nfs_mt_service_thread_start,
        nfs_mt_service_thread_stop, connVars, GotoS
  <2>. QED  BY <1>1, <1>3, <2>1 DEF TypeConn
<1>9. CASE rpc_reconnect_requeue \/ requeue_waitpdu \/ reconnect_cb
  <2>1. /\ stream' \in {stream, <<>>} /\ replies' \in {replies, <<>>}
        /\ conn' \in {"up", "closed", "connecting", conn}
        /\ spc' \in {"poll", "requeue", "purge", spc}
    BY <1>9 DEF rpc_reconnect_requeue, requeue_waitpdu, reconnect_cb, GotoS
  <2>2. num_retries' \in 0..1
    BY <1>1, <1>9 DEF rpc_reconnect_requeue, requeue_waitpdu, reconnect_cb, TypeConn
  <2>3. stream' \in Seq(Bytes) /\ replies' \in Seq(Replies)
    <3>1. <<>> \in Seq(Bytes) /\ <<>> \in Seq(Replies)
      OBVIOUS
    <3>. QED  BY <1>1, <2>1, <3>1, Zenon, ZenonT(60) DEF TypeConn
  <2>. QED  BY <1>1, <2>1, <2>2, <2>3 DEF TypeConn
<1>10. CASE Server
  <2>1. stream[1] \in Bytes /\ stream \in Seq(Bytes) /\ Len(stream) >= 2 /\ Len(stream) \in Nat
    BY <1>1, <1>10 DEF Server, TypeConn, Size
  <2>2. [xid |-> stream[1].xid, of |-> stream[1].call] \in Replies
    BY <2>1 DEF Bytes, Replies
  <2>3. stream' \in Seq(Bytes)
    BY <1>10, <2>1 DEF Server, Size
  <2>4. replies' \in Seq(Replies)
    BY <1>1, <1>10, <2>2 DEF Server, TypeConn
  <2>. QED  BY <1>1, <1>10, <2>3, <2>4 DEF Server, TypeConn
<1>11. CASE Hangup
  BY <1>1, <1>11 DEF Hangup, TypeConn
<1>12. CASE UNCHANGED vars
  BY <1>2, <1>12 DEF vars, connVars
<1>13. ASSUME NEW t \in Threads, App(t) PROVE TypeConn'
  BY <1>4, <1>5, <1>6, <1>13, Zenon, ZenonT(60) DEF App, Actors
<1>14. CASE Service
  BY <1>4, <1>5, <1>7, <1>8, <1>9, <1>14, Zenon, ZenonT(60) DEF Service, Actors
<1>. QED  BY <1>10, <1>11, <1>12, <1>13, <1>14 DEF Next

=============================================================================
