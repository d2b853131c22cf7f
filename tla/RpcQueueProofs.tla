--------------------------- MODULE RpcQueueProofs ---------------------------
(***************************************************************************)
(* Lemmas about the queues of RpcTransport, its inductive invariant, what  *)
(* the helpers that several actions share do to it, and the steps that     *)
(* connect, queue, write and begin to read a reply.                        *)
(***************************************************************************)
EXTENDS RpcTransport, TLAPS, FiniteSetTheorems

\* A leaf that names no prover is tried with these in turn: the short limits first, then
\* the longer ones, which only a busy machine needs.
USE SMT, Zenon, SMTT(60), ZenonT(60), SMTT(180)

-----------------------------------------------------------------------------
(* Queues: sequences that list the members of a set once each.             *)

IsQueue(q, S) ==
    /\ q \in Seq(Pdus)
    /\ \A i, j \in DOMAIN q : q[i] = q[j] => i = j
    /\ Elems(q) = S

\* Removing the members of S from a queue leaves a queue of the others.
LEMMA RemoveQueue ==
    ASSUME NEW q, NEW Q, IsQueue(q, Q), NEW S,
           NEW r \in rpc_remove_pdu_from_queue(q, S)
    PROVE  IsQueue(r, Q \ S)
<1>1. PICK n \in 0..Len(q) : r \in [1..n -> Elems(q) \ S]
  BY DEF rpc_remove_pdu_from_queue
<1>2. /\ Elems(q) \ S \subseteq Elems(r)
      /\ \A i, j \in DOMAIN r : i < j => Precedes(q, r[i], r[j])
  BY DEF rpc_remove_pdu_from_queue
<1>3. Elems(q) \subseteq Pdus /\ Len(q) \in Nat
  BY DEF IsQueue, Elems
<1>4. DOMAIN r = 1..n /\ n \in Nat /\ \A i \in DOMAIN r : r[i] \in Elems(q) \ S
  BY <1>1, <1>3
<1>5. r \in Seq(Pdus)
  BY <1>1, <1>3, <1>4
<1>6. ASSUME NEW i \in DOMAIN r, NEW j \in DOMAIN r, r[i] = r[j]
      PROVE  i = j
  <2>1. ASSUME NEW a \in DOMAIN r, NEW b \in DOMAIN r, a < b PROVE r[a] # r[b]
    <3>1. PICK c, d \in DOMAIN q : c < d /\ q[c] = r[a] /\ q[d] = r[b]
      BY <1>2, <2>1 DEF Precedes
    <3>2. DOMAIN q = 1..Len(q)
      BY DEF IsQueue
    <3>. QED  BY <3>1, <3>2, <1>3 DEF IsQueue
  <2>2. i \in Int /\ j \in Int
    BY <1>4
  <2>. QED  BY <2>1, <2>2, <1>6
<1>7. Elems(r) = Q \ S
  BY <1>2, <1>4 DEF Elems, IsQueue
<1>. QED  BY <1>5, <1>6, <1>7 DEF IsQueue

\* Every ordering of a set of commands is a queue of that set.
LEMMA OrderingQueue ==
    ASSUME NEW S \in SUBSET Pdus, NEW f \in Orderings(S), Cardinality(S) \in Nat
    PROVE  IsQueue(f, S)
<1>1. PICK n \in 0..Cardinality(S) : f \in [1..n -> S]
  BY DEF Orderings
<1>2. n \in Nat /\ DOMAIN f = 1..n /\ \A i \in DOMAIN f : f[i] \in S
  BY <1>1
<1>3. f \in Seq(Pdus)
  BY <1>1, <1>2
<1>4. Elems(f) = S
  BY <1>2 DEF Orderings, Elems
<1>. QED  BY <1>3, <1>4 DEF IsQueue, Orderings

\* A queue put behind the head of another, disjoint one.
LEMMA InsertQueue ==
    ASSUME NEW q, NEW Q, IsQueue(q, Q), q # <<>>,
           NEW f, NEW S, IsQueue(f, S), Q \cap S = {}
    PROVE  IsQueue(<<Head(q)>> \o f \o Tail(q), Q \cup S)
<1> DEFINE r == <<Head(q)>> \o f \o Tail(q)
<1>1. /\ q \in Seq(Pdus) /\ f \in Seq(Pdus)
      /\ Len(q) \in Nat \ {0} /\ Len(f) \in Nat
      /\ Head(q) = q[1] /\ Head(q) \in Pdus /\ Tail(q) \in Seq(Pdus)
      /\ DOMAIN q = 1..Len(q) /\ DOMAIN f = 1..Len(f)
  BY DEF IsQueue
<1>2. /\ Len(Tail(q)) = Len(q) - 1
      /\ \A i \in 1..(Len(q) - 1) : Tail(q)[i] = q[i + 1]
  BY <1>1
<1>3. /\ <<Head(q)>> \o f \in Seq(Pdus)
      /\ Len(<<Head(q)>> \o f) = Len(f) + 1
      /\ (<<Head(q)>> \o f)[1] = q[1]
      /\ \A i \in 2..(Len(f) + 1) : (<<Head(q)>> \o f)[i] = f[i - 1]
  BY <1>1
<1>4. /\ r \in Seq(Pdus)
      /\ DOMAIN r = 1..(Len(f) + Len(q))
      /\ \A i \in 1..(Len(f) + Len(q)) :
            r[i] = IF i <= Len(f) + 1 THEN (<<Head(q)>> \o f)[i]
                   ELSE Tail(q)[i - (Len(f) + 1)]
  BY <1>1, <1>2, <1>3
<1>5. /\ r[1] = q[1]
      /\ \A i \in 2..(Len(f) + 1) : r[i] = f[i - 1]
      /\ \A i \in (Len(f) + 2)..(Len(f) + Len(q)) : r[i] = q[i - Len(f)]
  BY <1>1, <1>2, <1>3, <1>4
<1> DEFINE m == Len(f)
           n == Len(q)
<1>6. /\ m \in Nat /\ n \in Nat /\ n >= 1
      /\ DOMAIN r = 1..(m + n) /\ DOMAIN q = 1..n /\ DOMAIN f = 1..m
      /\ \A i \in 2..(m + 1) : r[i] = f[i - 1]
      /\ \A i \in (m + 2)..(m + n) : r[i] = q[i - m]
  BY <1>1, <1>4, <1>5
<1> HIDE DEF r, m, n
<1>7. \A a \in 1..n, b \in 1..m : q[a] # f[b]
  <2>1. \A a \in DOMAIN q : q[a] \in Q
    BY DEF IsQueue, Elems
  <2>2. \A b \in DOMAIN f : f[b] \in S
    BY DEF IsQueue, Elems
  <2>. QED  BY <2>1, <2>2, <1>6
<1>8. \A a, b \in 1..n : q[a] = q[b] => a = b
  BY <1>6 DEF IsQueue
<1>9. \A a, b \in 1..m : f[a] = f[b] => a = b
  BY <1>6, Zenon, ZenonT(60) DEF IsQueue
<1>10. ASSUME NEW i \in 1..(m + n), NEW j \in 1..(m + n), r[i] = r[j]
       PROVE  i = j
  <2>1. ASSUME NEW k \in 1..(m + n)
        PROVE  \/ k \in 2..(m + 1) /\ k - 1 \in 1..m /\ r[k] = f[k - 1]
               \/ k = 1 /\ r[k] = q[1] /\ 1 \in 1..n
               \/ k \in (m + 2)..(m + n) /\ k - m \in 2..n /\ r[k] = q[k - m]
    BY <1>5, <1>6
  <2>2. CASE i \in 2..(m + 1) /\ i - 1 \in 1..m /\ r[i] = f[i - 1]
    BY <2>1, <2>2, <1>6, <1>7, <1>9, <1>10
  <2>3. CASE i = 1 /\ r[i] = q[1] /\ 1 \in 1..n
    <3>1. ~(j \in 2..(m + 1) /\ j - 1 \in 1..m /\ r[j] = f[j - 1])
      BY <2>3, <1>7, <1>10, Zenon, ZenonT(60)
    <3>2. ~(j \in (m + 2)..(m + n) /\ j - m \in 2..n /\ r[j] = q[j - m])
      <4>1. ASSUME j \in (m + 2)..(m + n), j - m \in 2..n, r[j] = q[j - m]
            PROVE  FALSE
        <5>1. j - m \in 1..n /\ j - m # 1
          BY <4>1, <1>6
        <5>2. q[1] = q[j - m]
          BY <2>3, <4>1, <1>10
        <5>. QED  BY <5>1, <5>2, <2>3, <1>8
      <4>. QED  BY <4>1
    <3>. QED  BY <2>1, <2>3, <3>1, <3>2
  <2>4. CASE i \in (m + 2)..(m + n) /\ i - m \in 2..n /\ r[i] = q[i - m]
    BY <2>1, <2>4, <1>6, <1>7, <1>8, <1>10
  <2>. QED  BY <2>1, <2>2, <2>3, <2>4
<1>11. Elems(r) \subseteq Q \cup S
  <2>1. ASSUME NEW k \in 1..(m + n) PROVE r[k] \in Elems(q) \cup Elems(f)
    <3>1. CASE k = 1
      BY <3>1, <1>5, <1>6 DEF Elems
    <3>2. CASE k \in 2..(m + 1)
      <4>1. k - 1 \in DOMAIN f /\ r[k] = f[k - 1]
        BY <3>2, <1>6
      <4>. QED  BY <4>1 DEF Elems
    <3>3. CASE k \in (m + 2)..(m + n)
      <4>1. k - m \in DOMAIN q /\ r[k] = q[k - m]
        BY <3>3, <1>6
      <4>. QED  BY <4>1 DEF Elems
    <3>. QED  BY <3>1, <3>2, <3>3, <1>6
  <2>. QED  BY <2>1, <1>6 DEF IsQueue, Elems
<1>12. Q \cup S \subseteq Elems(r)
  <2>1. ASSUME NEW a \in 1..n PROVE q[a] \in Elems(r)
    <3>1. CASE a = 1
      BY <3>1, <1>5, <1>6 DEF Elems
    <3>2. CASE a # 1
      <4>1. a + m \in (m + 2)..(m + n) /\ a + m \in DOMAIN r /\ (a + m) - m = a
        BY <3>2, <1>6
      <4>2. r[a + m] = q[a]
        BY <4>1, <1>6
      <4>. QED  BY <4>1, <4>2 DEF Elems
    <3>. QED  BY <3>1, <3>2
  <2>2. ASSUME NEW b \in 1..m PROVE f[b] \in Elems(r)
    <3>1. b + 1 \in 2..(m + 1) /\ b + 1 \in DOMAIN r /\ (b + 1) - 1 = b
      BY <1>6
    <3>2. r[b + 1] = f[b]
      BY <3>1, <1>6
    <3>. QED  BY <3>1, <3>2 DEF Elems
  <2>. QED  BY <2>1, <2>2, <1>6 DEF IsQueue, Elems
<1>13. r \in Seq(Pdus)
  BY <1>4
<1>14. IsQueue(r, Q \cup S)
  BY <1>6, <1>10, <1>11, <1>12, <1>13 DEF IsQueue
<1>. QED  BY <1>14 DEF r

\* Commands returned to outqueue, one or many, join the queue.
LEMMA ReturnQueue ==
    ASSUME NEW q, NEW Q, IsQueue(q, Q), NEW p \in Pdus, p \notin Q
    PROVE  IsQueue(rpc_return_to_outqueue(q, p), Q \cup {p})
<1>1. IsQueue(<<p>>, {p})
  <2>1. <<p>> \in Seq(Pdus) /\ DOMAIN <<p>> = {1} /\ <<p>>[1] = p
    OBVIOUS
  <2>. QED  BY <2>1 DEF IsQueue, Elems
<1>2. CASE q = <<>>
  <2>1. Q = {}
    BY <1>2 DEF IsQueue, Elems
  <2>. QED  BY <1>1, <1>2, <2>1 DEF rpc_return_to_outqueue
<1>3. CASE q # <<>>
  <2>1. q \in Seq(Pdus)
    BY DEF IsQueue
  <2>2. Head(q) \in Pdus /\ Tail(q) \in Seq(Pdus)
    BY <1>3, <2>1
  <2>3. <<Head(q), p>> \o Tail(q) = <<Head(q)>> \o <<p>> \o Tail(q)
    BY <2>2
  <2>4. IsQueue(<<Head(q)>> \o <<p>> \o Tail(q), Q \cup {p})
    BY <1>1, <1>3, InsertQueue
  <2>. QED  BY <1>3, <2>3, <2>4, Zenon, ZenonT(60) DEF rpc_return_to_outqueue
<1>. QED  BY <1>2, <1>3

\* rpc_return_to_outqueue, applied to all of waitpdu[], puts every PDU in outqueue once.
LEMMA ReturnAllQueue ==
    ASSUME NEW q, NEW Q, IsQueue(q, Q), NEW S \in SUBSET Pdus, S \cap Q = {},
           Cardinality(S) \in Nat, NEW r \in ReturnAll(q, S)
    PROVE  IsQueue(r, Q \cup S)
<1>1. CASE q = <<>>
  <2>1. Q = {} /\ r \in Orderings(S)
    BY <1>1 DEF IsQueue, Elems, ReturnAll
  <2>. QED  BY <2>1, OrderingQueue
<1>2. CASE q # <<>>
  <2>1. PICK f \in Orderings(S) : r = <<Head(q)>> \o f \o Tail(q)
    BY <1>2 DEF ReturnAll
  <2>. QED  BY <1>2, <2>1, OrderingQueue, InsertQueue, Zenon, ZenonT(60)
<1>. QED  BY <1>1, <1>2

\* A command queued at the tail.
LEMMA AppendQueue ==
    ASSUME NEW q, NEW Q, IsQueue(q, Q), NEW p \in Pdus, p \notin Q
    PROVE  IsQueue(Append(q, p), Q \cup {p})
<1>1. /\ q \in Seq(Pdus) /\ Len(q) \in Nat /\ DOMAIN q = 1..Len(q)
      /\ \A i \in 1..Len(q) : q[i] \in Q
      /\ \A i, j \in 1..Len(q) : q[i] = q[j] => i = j
      /\ \A x \in Q : \E i \in 1..Len(q) : q[i] = x
  BY DEF IsQueue, Elems
<1>2. /\ Append(q, p) \in Seq(Pdus)
      /\ DOMAIN Append(q, p) = 1..(Len(q) + 1)
      /\ \A i \in 1..Len(q) : Append(q, p)[i] = q[i]
      /\ Append(q, p)[Len(q) + 1] = p
  BY <1>1
<1> DEFINE r == Append(q, p)
<1> HIDE DEF r
<1>3. Elems(r) = Q \cup {p}
  BY <1>1, <1>2 DEF Elems, r
<1>4. ASSUME NEW i \in DOMAIN r, NEW j \in DOMAIN r, r[i] = r[j] PROVE i = j
  BY <1>1, <1>2, <1>4 DEF r
<1>. QED  BY <1>2, <1>3, <1>4 DEF IsQueue, r

\* The first n commands leave the queue.
LEMMA SplitQueue ==
    ASSUME NEW q, NEW Q, IsQueue(q, Q), NEW n \in 0..Len(q)
    PROVE  LET sent == {q[i] : i \in 1..n}
           IN  /\ sent \subseteq Q
               /\ IsQueue(SubSeq(q, n + 1, Len(q)), Q \ sent)
<1> DEFINE sent == {q[i] : i \in 1..n}
           r == SubSeq(q, n + 1, Len(q))
<1>1. /\ q \in Seq(Pdus) /\ Len(q) \in Nat /\ DOMAIN q = 1..Len(q)
      /\ \A i \in 1..Len(q) : q[i] \in Q
      /\ \A i, j \in 1..Len(q) : q[i] = q[j] => i = j
      /\ \A x \in Q : \E i \in 1..Len(q) : q[i] = x
  BY DEF IsQueue, Elems
<1>2. /\ r \in Seq(Pdus)
      /\ DOMAIN r = 1..(Len(q) - n)
      /\ \A i \in 1..(Len(q) - n) : r[i] = q[i + n]
  BY <1>1
<1>3. sent \subseteq Q
  BY <1>1
<1> HIDE DEF r
<1>4. ASSUME NEW i \in DOMAIN r, NEW j \in DOMAIN r, r[i] = r[j] PROVE i = j
  <2>1. i + n \in 1..Len(q) /\ j + n \in 1..Len(q) /\ r[i] = q[i + n] /\ r[j] = q[j + n]
    BY <1>1, <1>2
  <2>2. q[i + n] = q[j + n]
    BY <1>4, <2>1, Zenon, ZenonT(60)
  <2>3. i + n = j + n
    BY <1>1, <2>1, <2>2
  <2>4. i \in Int /\ j \in Int
    BY <1>1, <1>2
  <2>. QED  BY <2>3, <2>4
<1>5. Elems(r) = Q \ sent
  <2>1. ASSUME NEW i \in DOMAIN r PROVE r[i] \in Q \ sent
    <3>1. i + n \in 1..Len(q) /\ r[i] = q[i + n] /\ ~(i + n \in 1..n)
      BY <1>1, <1>2
    <3>. QED  BY <3>1, <1>1
  <2>2. ASSUME NEW x \in Q \ sent PROVE \E i \in DOMAIN r : r[i] = x
    <3>1. PICK k \in 1..Len(q) : q[k] = x
      BY <1>1
    <3>2. k - n \in DOMAIN r /\ (k - n) + n = k
      BY <3>1, <1>1, <1>2
    <3>. QED  BY <3>1, <3>2, <1>2, Zenon, ZenonT(60)
  <2>. QED  BY <2>1, <2>2 DEF Elems
<1>. QED  BY <1>2, <1>3, <1>4, <1>5 DEF IsQueue, r

-----------------------------------------------------------------------------
(* Sizes of sets of commands.                                              *)

\* The sets of PDUs are finite, so waitpdu_len and the other counts are numbers.
LEMMA PduSets ==
    \A S \in SUBSET Pdus : IsFiniteSet(S) /\ Cardinality(S) \in Nat
<1>1. IsFiniteSet(Pdus)
  BY TransportAssumption
<1>. QED  BY <1>1, FS_Subset, FS_CardinalityType

\* Unlinking PDUs from waitpdu[] takes off as many as there are.
LEMMA DiffSize ==
    ASSUME NEW S \in SUBSET Pdus, NEW T \in SUBSET S
    PROVE  Cardinality(S \ T) = Cardinality(S) - Cardinality(T)
<1>1. IsFiniteSet(S) /\ S \cap T = T
  BY PduSets
<1>. QED  BY <1>1, FS_Difference

\* Linking PDUs to waitpdu[] adds at most as many as there are.
LEMMA UnionSize ==
    ASSUME NEW S \in SUBSET Pdus, NEW T \in SUBSET Pdus
    PROVE  Cardinality(S \cup T) <= Cardinality(S) + Cardinality(T)
<1>1. /\ IsFiniteSet(S) /\ Cardinality(S) \in Nat
      /\ IsFiniteSet(T) /\ Cardinality(T) \in Nat
      /\ S \cap T \in SUBSET Pdus
  BY PduSets
<1>2. Cardinality(S \cup T) = Cardinality(S) + Cardinality(T) - Cardinality(S \cap T)
  BY <1>1, FS_Union
<1>3. Cardinality(S \cap T) \in Nat
  BY <1>1, PduSets
<1>. QED  BY <1>1, <1>2, <1>3

\* The PDUs among the first n of outqueue are at most n.
LEMMA PrefixSize ==
    ASSUME NEW q \in Seq(Pdus), NEW n \in 0..Len(q)
    PROVE  /\ {q[i] : i \in 1..n} \subseteq Pdus
           /\ Cardinality({q[i] : i \in 1..n}) <= n
<1> DEFINE S == {q[i] : i \in 1..n}
           f == [i \in 1..n |-> q[i]]
<1>1. n \in Nat /\ S \subseteq Pdus
  OBVIOUS
<1>2. f \in Surjection(1..n, S)
  BY DEF Surjection
<1>3. ExistsSurjection(1..n, S)
  BY <1>2 DEF ExistsSurjection
<1>. QED  BY <1>1, <1>3, FS_SurjCardinalityBound

-----------------------------------------------------------------------------
(* The inductive invariant.  OnePlace alone is not inductive: a reply that *)
(* begins to arrive overwrites rpc->pdu, so rpc->pdu must be free then     *)
(* (ReaderOK), and TypeOK needs the counter to cover what is taken off it. *)

\* What rpc->state says about rpc->pdu.
ReaderOK ==
    /\ state \in {"READ_RM", "READ_UNKNOWN", "READ_FRAGMENT"} => pdu = NULL
    /\ state \in {"READ_IOVEC", "READ_PADDING"} => pdu # NULL

\* waitpdu_len against the chains and the limit.
CountOK ==
    /\ waitpdu_len >= Cardinality(waitpdu)
    /\ MaxWaitpduLen # 0 => waitpdu_len <= MaxWaitpduLen

IInv == TypeOK /\ OnePlace /\ ReaderOK /\ CountOK

\* A context that rpc_init_context has just made satisfies the invariant.
LEMMA InitIInv == Init => IInv
<1> SUFFICES ASSUME Init PROVE IInv
  OBVIOUS
<1>1. TypeOK
  <2>1. 0 \in 0..RecordSize /\ 0 \in Nat
    BY TransportAssumption
  <2>2. TypeQueues /\ TypeReader /\ TypeConn /\ TypeWire
    BY <2>1 DEF Init, TypeQueues, TypeReader, TypeConn, TypeWire, InputState
  <2>3. TypeApp
    BY DEF Init, TypeApp
  <2>4. TypeFlags
    BY Zenon, ZenonT(60) DEF Init, TypeFlags
  <2>5. faults \in Nat /\ expiries \in Nat
    BY <2>1 DEF Init
  <2>. QED  BY <2>2, <2>3, <2>4, <2>5 DEF TypeOK
<1>2. OnePlace
  BY TransportAssumption DEF Init, OnePlace, Elems
<1>3. ReaderOK /\ CountOK
  BY FS_EmptySet, TransportAssumption DEF Init, ReaderOK, CountOK
<1>. QED  BY <1>1, <1>2, <1>3 DEF IInv

\* The queue of the current state.
LEMMA Outqueue ==
    ASSUME IInv PROVE IsQueue(outqueue, Elems(outqueue)) /\ Elems(outqueue) \subseteq Pdus
BY DEF IInv, TypeOK, TypeQueues, OnePlace, IsQueue, Elems

\* Calling and freeing PDUs keeps the records of the application's calls well typed.
LEMMA CompletionType ==
    ASSUME TypeApp, NEW S, NEW status \in Status
    PROVE  /\ Called(S, status) \in [Pdus -> Seq(Status)]
           /\ Freed(S) \in [Pdus -> {"unused", "live", "freed"}]
BY DEF TypeApp, Called, Freed

\* Commands that leave the queues and are freed, while the reader keeps its own.
LEMMA OnePlaceLess ==
    ASSUME OnePlace, NEW S \in SUBSET (Elems(outqueue) \cup waitpdu), pdu' = pdu,
           \A i, j \in DOMAIN outqueue' : outqueue'[i] = outqueue'[j] => i = j,
           Elems(outqueue') \cap waitpdu' = {},
           Elems(outqueue') \cup waitpdu' = (Elems(outqueue) \cup waitpdu) \ S,
           life' = Freed(S)
    PROVE  OnePlace'
<1>1. {p \in Pdus : life'[p] = "live"} = {p \in Pdus : life[p] = "live"} \ S
  BY DEF Freed
<1>2. pdu \notin Elems(outqueue) \cup waitpdu
  BY DEF OnePlace
<1>3. {p \in Pdus : life[p] = "live"} = Elems(outqueue) \cup waitpdu \cup ({pdu} \ {NULL})
  BY DEF OnePlace
<1>4. {p \in Pdus : life'[p] = "live"}
         = Elems(outqueue') \cup waitpdu' \cup ({pdu} \ {NULL})
  BY <1>1, <1>2, <1>3
<1>5. pdu' \notin Elems(outqueue') \cup waitpdu'
  BY <1>2
<1>. QED  BY <1>4, <1>5 DEF OnePlace

\* A purge empties the queues and frees exactly the commands it walks.
LEMMA PurgeEffect ==
    ASSUME TypeApp, NEW q, NEW w, NEW status \in Status,
           rpc_purge_all_pdus(q, w, status)
    PROVE  /\ outqueue' \in Seq(Pdus) /\ Elems(outqueue') = {}
           /\ \A i, j \in DOMAIN outqueue' : outqueue'[i] = outqueue'[j] => i = j
           /\ waitpdu' = {} /\ Cardinality(waitpdu') = 0
           /\ life' \in [Pdus -> {"unused", "live", "freed"}]
           /\ cbs' \in [Pdus -> Seq(Status)]
           /\ {p \in Pdus : life'[p] = "live"} =
                {p \in Pdus : life[p] = "live"} \ (Elems(q) \cup w)
<1>1. outqueue' = <<>> /\ waitpdu' = {}
  BY DEF rpc_purge_all_pdus
<1>2. outqueue' \in Seq(Pdus) /\ Elems(outqueue') = {} /\ DOMAIN outqueue' = {}
  BY <1>1 DEF Elems
<1>3. /\ life' \in [Pdus -> {"unused", "live", "freed"}]
      /\ cbs' \in [Pdus -> Seq(Status)]
  BY CompletionType, Zenon, ZenonT(60) DEF rpc_purge_all_pdus
<1>4. life' = Freed(Elems(q) \cup w)
  BY DEF rpc_purge_all_pdus
<1>5. \A p \in Pdus : life'[p] = "live" <=> life[p] = "live" /\ p \notin Elems(q) \cup w
  BY <1>4 DEF Freed
<1>. QED  BY <1>1, <1>2, <1>3, <1>5, FS_EmptySet

-----------------------------------------------------------------------------
(* Writing, finding, finishing and purging.                               *)

\* Writing moves a prefix of the queue to the chains and stays in the window.
LEMMA WriteEffect ==
    ASSUME IInv, NEW q, NEW Q \in SUBSET Pdus, IsQueue(q, Q), q # <<>>,
           Q \cap waitpdu = {}, NEW n \in 0..Len(q), NEW k \in 0..(RecordSize - 1),
           rpc_write_to_socket(q, n, k)
    PROVE  /\ TypeQueues' /\ TypeWire' /\ CountOK'
           /\ \A i, j \in DOMAIN outqueue' : outqueue'[i] = outqueue'[j] => i = j
           /\ Elems(outqueue') \cap waitpdu' = {}
           /\ Elems(outqueue') \cup waitpdu' = Q \cup waitpdu
<1> DEFINE sent == {q[i] : i \in 1..n}
           next == IF n < Len(q) THEN q[n + 1] ELSE NULL
<1>1. /\ TypeQueues /\ TypeWire /\ CountOK
  BY DEF IInv, TypeOK
<1>2. q \in Seq(Pdus) /\ Len(q) \in Nat /\ next \in Pdus \cup {NULL}
  BY DEF IsQueue
<1>3. /\ sent \subseteq Q
      /\ IsQueue(SubSeq(q, n + 1, Len(q)), Q \ sent)
  BY SplitQueue, Zenon, ZenonT(60)
<1>4. outqueue' = SubSeq(q, n + 1, Len(q)) /\ waitpdu' = waitpdu \cup sent
  BY DEF rpc_write_to_socket
<1>5. /\ outqueue' \in Seq(Pdus)
      /\ \A i, j \in DOMAIN outqueue' : outqueue'[i] = outqueue'[j] => i = j
      /\ Elems(outqueue') = Q \ sent
  BY <1>3, <1>4 DEF IsQueue
<1>6. CountOK' /\ waitpdu_len' \in Nat
  <2>1. sent \in SUBSET Pdus /\ Cardinality(sent) <= n
    BY <1>2, PrefixSize
  <2>2. Cardinality(waitpdu \cup sent) <= Cardinality(waitpdu) + Cardinality(sent)
    BY <1>1, <2>1, UnionSize, Zenon, ZenonT(60) DEF TypeQueues
  <2>3. /\ Cardinality(waitpdu) \in Nat /\ Cardinality(sent) \in Nat
        /\ waitpdu \cup sent \in SUBSET Pdus
        /\ Cardinality(waitpdu \cup sent) \in Nat
    BY <1>1, <2>1, PduSets DEF TypeQueues
  <2>4. waitpdu_len' = waitpdu_len + n /\ n <= Window(q)
    BY DEF rpc_write_to_socket
  <2>5. waitpdu_len \in Nat /\ MaxWaitpduLen \in Nat /\ n \in Nat
    BY <1>1, TransportAssumption DEF TypeQueues
  <2>6. waitpdu_len' >= Cardinality(waitpdu')
    <3>1. waitpdu_len >= Cardinality(waitpdu)
      BY <1>1 DEF CountOK
    <3> HIDE DEF sent
    <3>2. Cardinality(waitpdu') <= Cardinality(waitpdu) + n
      BY <1>4, <2>1, <2>2, <2>3, <2>5
    <3>. QED  BY <1>4, <2>3, <2>4, <2>5, <3>1, <3>2
  <2>7. MaxWaitpduLen # 0 => waitpdu_len' <= MaxWaitpduLen
    BY <1>1, <1>2, <2>4, <2>5 DEF CountOK, Window
  <2>. QED  BY <2>4, <2>5, <2>6, <2>7 DEF CountOK
<1>7. num_done' \in [Pdus -> 0..RecordSize]
  <2>1. num_done' = [p \in Pdus |-> IF p \in sent THEN RecordSize
                                    ELSE IF p = next THEN k ELSE num_done[p]]
    BY DEF rpc_write_to_socket
  <2>2. RecordSize \in 0..RecordSize /\ k \in 0..RecordSize
    BY TransportAssumption
  <2>3. \A p \in Pdus : num_done[p] \in 0..RecordSize
    BY <1>1 DEF TypeQueues
  <2> HIDE DEF sent, next
  <2>. QED  BY <2>1, <2>2, <2>3
<1>8. TypeWire'
  <2>1. \/ UNCHANGED wire
        \/ /\ halfsent' = IF k > 0 THEN next ELSE NULL
           /\ server' = [p \in Pdus |-> IF p \in sent THEN server[p] + 1 ELSE server[p]]
    BY DEF rpc_write_to_socket
  <2> HIDE DEF sent, next
  <2>. QED  BY <1>1, <1>2, <2>1 DEF TypeWire, wire
<1>9. TypeQueues'
  <2>1. waitpdu' \subseteq Pdus
    BY <1>1, <1>3, <1>4 DEF TypeQueues
  <2>. QED  BY <1>5, <1>6, <1>7, <2>1 DEF TypeQueues
<1> HIDE DEF sent
<1>. QED  BY <1>3, <1>4, <1>5, <1>6, <1>8, <1>9

\* rpc_find_pdu takes the command off the one place where it is linked.
LEMMA FindEffect ==
    ASSUME IInv, NEW p \in Pdus, NEW hash, rpc_find_pdu(p, hash), num_done' = num_done
    PROVE  /\ TypeQueues' /\ CountOK'
           /\ \A i, j \in DOMAIN outqueue' : outqueue'[i] = outqueue'[j] => i = j
           /\ Elems(outqueue') \cap waitpdu' = {}
           /\ p \in Elems(outqueue) \cup waitpdu
           /\ Elems(outqueue') \cup waitpdu' = (Elems(outqueue) \cup waitpdu) \ {p}
<1>1. TypeQueues /\ CountOK /\ OnePlace
  BY DEF IInv, TypeOK
<1>2. CASE /\ p \in Elems(outqueue)
           /\ outqueue' \in rpc_remove_pdu_from_queue(outqueue, {p})
           /\ UNCHANGED <<waitpdu, waitpdu_len>>
  <2>1. IsQueue(outqueue', Elems(outqueue) \ {p})
    BY <1>2, Outqueue, RemoveQueue
  <2>. QED  BY <1>1, <1>2, <2>1 DEF IsQueue, TypeQueues, CountOK, OnePlace
<1>3. CASE /\ p \notin Elems(outqueue)
           /\ p \in waitpdu /\ HashXid[p] = hash
           /\ waitpdu' = waitpdu \ {p}
           /\ waitpdu_len' = waitpdu_len - 1
           /\ UNCHANGED outqueue
  <2>1. IsFiniteSet(waitpdu) /\ Cardinality(waitpdu) \in Nat
    BY <1>1, PduSets DEF TypeQueues
  <2>2. /\ Cardinality(waitpdu \ {p}) = Cardinality(waitpdu) - 1
        /\ waitpdu \ {p} \in SUBSET Pdus
    BY <1>1, <1>3, <2>1, FS_RemoveElement, Zenon, ZenonT(60) DEF TypeQueues
  <2>3. Cardinality(waitpdu \ {p}) \in Nat
    BY <2>2, PduSets
  <2>4. waitpdu_len' \in Nat /\ CountOK'
    BY <1>1, <1>3, <2>1, <2>2, <2>3, TransportAssumption DEF TypeQueues, CountOK
  <2>5. TypeQueues'
    BY <1>1, <1>3, <2>4 DEF TypeQueues
  <2>. QED  BY <1>1, <1>3, <2>4, <2>5 DEF OnePlace
<1>. QED  BY <1>2, <1>3 DEF rpc_find_pdu

\* A reply that is finished frees its command; OnePlace and the reader agree.
LEMMA FinishedEffect ==
    ASSUME IInv, NEW status \in Status, pdu # NULL, rpc_finished_pdu(status),
           UNCHANGED <<queues, rm_hash, asked>>
    PROVE  TypeQueues' /\ TypeReader' /\ TypeApp' /\ OnePlace' /\ ReaderOK' /\ CountOK'
<1>1. /\ pdu' = NULL /\ state' = "READ_RM" /\ life' = Freed({pdu})
      /\ cbs' = Called({pdu}, status) /\ rm_hash' = rm_hash /\ asked' = asked
      /\ UNCHANGED <<outqueue, num_done, waitpdu, waitpdu_len>>
  BY DEF rpc_finished_pdu, queues
<1>2. TypeApp /\ TypeReader /\ OnePlace
  BY DEF IInv, TypeOK
<1>3. TypeQueues' /\ TypeReader' /\ ReaderOK' /\ CountOK'
  BY <1>1 DEF IInv, TypeOK, TypeQueues, TypeReader, ReaderOK, CountOK, InputState
<1>4. TypeApp'
  BY <1>1, <1>2, CompletionType, Zenon, ZenonT(60) DEF TypeApp
<1>5. {p \in Pdus : life'[p] = "live"} = {p \in Pdus : life[p] = "live"} \ {pdu}
  BY <1>1 DEF Freed
<1>6. OnePlace'
  <2>1. NULL \notin Elems(outqueue) \cup waitpdu
    BY Outqueue, TransportAssumption DEF IInv, TypeOK, TypeQueues
  <2>. QED  BY <1>1, <1>2, <1>5, <2>1 DEF OnePlace, Elems
<1>. QED  BY <1>3, <1>4, <1>6

\* Completing both queues leaves at most the command whose reply is being read.
LEMMA PurgeQueues ==
    ASSUME IInv, NEW status \in Status, rpc_purge_all_pdus(outqueue, waitpdu, status),
           UNCHANGED <<num_done, waitpdu_len, pdu, asked>>
    PROVE  TypeQueues' /\ TypeApp' /\ OnePlace' /\ CountOK'
<1>1. TypeApp /\ TypeQueues /\ CountOK /\ OnePlace
  BY DEF IInv, TypeOK
<1>2. /\ outqueue' \in Seq(Pdus) /\ Elems(outqueue') = {}
      /\ \A i, j \in DOMAIN outqueue' : outqueue'[i] = outqueue'[j] => i = j
      /\ waitpdu' = {} /\ Cardinality(waitpdu') = 0
      /\ life' \in [Pdus -> {"unused", "live", "freed"}]
      /\ cbs' \in [Pdus -> Seq(Status)]
      /\ {p \in Pdus : life'[p] = "live"} =
            {p \in Pdus : life[p] = "live"} \ (Elems(outqueue) \cup waitpdu)
  BY <1>1, PurgeEffect
<1>3. TypeQueues' /\ CountOK' /\ TypeApp'
  BY <1>1, <1>2 DEF TypeQueues, CountOK, TypeApp
<1>4. OnePlace'
  BY <1>1, <1>2 DEF OnePlace
<1>. QED  BY <1>3, <1>4
-----------------------------------------------------------------------------
(* Connecting, queueing and writing preserve the invariant.                *)

\* The steps that only concern the connection.
LEMMA ConnectAsyncStep == ASSUME IInv, rpc_connect_async PROVE IInv'
<1> USE DEF IInv
<1>1. TypeQueues' /\ TypeReader' /\ TypeApp'
  BY DEF rpc_connect_async, TypeOK, TypeQueues, TypeReader, TypeApp, queues, reader, app
<1>2. TypeConn' /\ TypeWire' /\ faults' \in Nat /\ expiries' \in Nat
  BY DEF rpc_connect_async, FreshWire, Fault, TypeOK, TypeConn, TypeWire
<1>3. TypeFlags'
  BY Zenon, ZenonT(60) DEF rpc_connect_async, TypeOK, TypeFlags
<1>4. OnePlace'
  BY DEF rpc_connect_async, OnePlace, Elems, queues, reader, app
<1>5. ReaderOK' /\ CountOK'
  BY DEF rpc_connect_async, ReaderOK, CountOK, queues, reader
<1>. QED  BY <1>1, <1>2, <1>3, <1>4, <1>5 DEF TypeOK

\* rpc_set_resiliency changes what a lost connection does and no queue.
LEMMA ResiliencyStep == ASSUME IInv, rpc_set_resiliency PROVE IInv'
<1> USE DEF IInv
<1>1. TypeQueues' /\ TypeReader' /\ TypeApp' /\ TypeWire'
  BY DEF rpc_set_resiliency, TypeOK, TypeQueues, TypeReader, TypeApp, TypeWire, queues,
         reader, app, wire
<1>2. TypeConn' /\ faults' \in Nat /\ expiries' \in Nat
  BY TransportAssumption DEF rpc_set_resiliency, TypeOK, TypeConn
<1>3. TypeFlags'
  BY Zenon, ZenonT(60) DEF rpc_set_resiliency, TypeOK, TypeFlags
<1>4. OnePlace'
  BY DEF rpc_set_resiliency, OnePlace, Elems, queues, reader, app
<1>5. ReaderOK' /\ CountOK'
  BY DEF rpc_set_resiliency, ReaderOK, CountOK, queues, reader
<1>. QED  BY <1>1, <1>2, <1>3, <1>4, <1>5 DEF TypeOK

\* rpc_service finding the socket connected preserves the invariant.
LEMMA ConnectedStep == ASSUME IInv, ServiceConnected PROVE IInv'
<1> USE DEF IInv
<1>1. TypeQueues' /\ TypeReader' /\ TypeApp' /\ TypeWire'
  BY DEF ServiceConnected, TypeOK, TypeQueues, TypeReader, TypeApp, TypeWire, queues,
         reader, app, wire
<1>2. TypeConn' /\ faults' \in Nat /\ expiries' \in Nat
  BY DEF ServiceConnected, TypeOK, TypeConn
<1>3. TypeFlags'
  BY Zenon, ZenonT(60) DEF ServiceConnected, TypeOK, TypeFlags
<1>4. OnePlace'
  BY DEF ServiceConnected, OnePlace, Elems, queues, reader, app
<1>5. ReaderOK' /\ CountOK'
  BY DEF ServiceConnected, ReaderOK, CountOK, queues, reader
<1>. QED  BY <1>1, <1>2, <1>3, <1>4, <1>5 DEF TypeOK

\* A hangup or a failed connect seen by rpc_service preserves the invariant.
LEMMA SocketErrorStep ==
    ASSUME IInv, ServiceSocketError \/ ServiceConnectFailed PROVE IInv'
<1> USE DEF IInv
<1>1. TypeQueues' /\ TypeReader' /\ TypeApp' /\ TypeWire'
  BY DEF ServiceSocketError, ServiceConnectFailed, TypeOK, TypeQueues, TypeReader,
         TypeApp, TypeWire, queues, reader, app, wire
<1>2. TypeConn' /\ faults' \in Nat /\ expiries' \in Nat
  BY DEF ServiceSocketError, ServiceConnectFailed, SocketFault, Fault, TypeOK, TypeConn
<1>3. TypeFlags'
  BY Zenon, ZenonT(60) DEF ServiceSocketError, ServiceConnectFailed, TypeOK, TypeFlags
<1>4. OnePlace'
  BY DEF ServiceSocketError, ServiceConnectFailed, OnePlace, Elems, queues, reader, app
<1>5. ReaderOK' /\ CountOK'
  BY DEF ServiceSocketError, ServiceConnectFailed, ReaderOK, CountOK, queues, reader
<1>. QED  BY <1>1, <1>2, <1>3, <1>4, <1>5 DEF TypeOK

\* rpc_write_to_socket moves the PDUs it has written whole from outqueue to waitpdu[].
LEMMA WriteStep == ASSUME IInv, ServiceWrite PROVE IInv'
<1>1. PICK n \in 0..Len(outqueue), k \in 0..(RecordSize - 1) :
        /\ rpc_write_to_socket(outqueue, n, k)
        /\ \/ UNCHANGED <<fd, pc, faults>>
           \/ n < Window(outqueue) /\ SocketFault /\ pc' = "requeue"
  BY DEF ServiceWrite
<1>2. /\ TypeQueues' /\ TypeWire' /\ CountOK'
      /\ \A i, j \in DOMAIN outqueue' : outqueue'[i] = outqueue'[j] => i = j
      /\ Elems(outqueue') \cap waitpdu' = {}
      /\ Elems(outqueue') \cup waitpdu' = Elems(outqueue) \cup waitpdu
  BY <1>1, Outqueue, WriteEffect DEF ServiceWrite, IInv, OnePlace
<1>3. TypeReader' /\ TypeApp' /\ ReaderOK'
  BY DEF ServiceWrite, IInv, TypeOK, TypeReader, TypeApp, ReaderOK, reader, app
<1>4. TypeConn' /\ faults' \in Nat /\ expiries' \in Nat
  BY <1>1 DEF ServiceWrite, SocketFault, Fault, IInv, TypeOK, TypeConn
<1>5. TypeFlags'
  BY Zenon, ZenonT(60) DEF ServiceWrite, IInv, TypeOK, TypeFlags
<1>6. OnePlace'
  <2>1. life' = life /\ pdu' = pdu
    BY DEF ServiceWrite, app, reader
  <2>. QED  BY <1>2, <2>1 DEF IInv, OnePlace
<1>. QED  BY <1>2, <1>3, <1>4, <1>5, <1>6 DEF IInv, TypeOK

\* rpc_queue_pdu appends a new PDU to outqueue, and may write it at once.
LEMMA QueuePduStep == ASSUME IInv, NEW p \in Pdus, rpc_queue_pdu(p) PROVE IInv'
<1>1. /\ p \notin Elems(outqueue) \cup waitpdu \cup ({pdu} \ {NULL})
      /\ p # pdu
  BY TransportAssumption DEF rpc_queue_pdu, IInv, OnePlace
<1>2. /\ TypeQueues' /\ TypeWire' /\ CountOK'
      /\ \A i, j \in DOMAIN outqueue' : outqueue'[i] = outqueue'[j] => i = j
      /\ Elems(outqueue') \cap waitpdu' = {}
      /\ Elems(outqueue') \cup waitpdu' = (Elems(outqueue) \cup {p}) \cup waitpdu
  <2>1. CASE outqueue = <<>> /\ fd = "up"
    <3>1. PICK n \in 0..1, k \in 0..(RecordSize - 1) : rpc_write_to_socket(<<p>>, n, k)
      BY <2>1 DEF rpc_queue_pdu
    <3>2. Elems(outqueue) = {}
      BY <2>1 DEF Elems
    <3>3. IsQueue(<<p>>, {p}) /\ Len(<<p>>) = 1 /\ <<p>> # <<>>
      <4>1. <<p>> \in Seq(Pdus) /\ DOMAIN <<p>> = {1} /\ <<p>>[1] = p
        OBVIOUS
      <4>. QED  BY <4>1 DEF IsQueue, Elems
    <3>. QED  BY <1>1, <3>1, <3>2, <3>3, WriteEffect
  <2>2. CASE ~(outqueue = <<>> /\ fd = "up")
    <3>1. /\ outqueue' = Append(outqueue, p)
          /\ UNCHANGED <<num_done, waitpdu, waitpdu_len, halfsent, server>>
      BY <2>2 DEF rpc_queue_pdu, wire
    <3>2. IsQueue(outqueue', Elems(outqueue) \cup {p})
      BY <1>1, <3>1, Outqueue, AppendQueue
    <3>3. TypeQueues' /\ TypeWire' /\ CountOK'
      BY <3>1, <3>2 DEF IsQueue, IInv, TypeOK, TypeQueues, TypeWire, CountOK
    <3>. QED  BY <1>1, <3>1, <3>2, <3>3 DEF IsQueue, IInv, OnePlace
  <2>. QED  BY <2>1, <2>2
<1>3. TypeReader' /\ TypeApp' /\ ReaderOK'
  BY DEF rpc_queue_pdu, IInv, TypeOK, TypeReader, TypeApp, ReaderOK, reader
<1>4. TypeConn' /\ faults' \in Nat /\ expiries' \in Nat
  BY DEF rpc_queue_pdu, conn, IInv, TypeOK, TypeConn
<1>5. TypeFlags'
  BY Zenon, ZenonT(60) DEF rpc_queue_pdu, conn, IInv, TypeOK, TypeFlags
<1>6. OnePlace'
  <2>1. life' = [life EXCEPT ![p] = "live"] /\ pdu' = pdu
    BY DEF rpc_queue_pdu, reader
  <2>2. life \in [Pdus -> {"unused", "live", "freed"}]
    BY DEF IInv, TypeOK, TypeApp
  <2>3. {x \in Pdus : life'[x] = "live"} = {x \in Pdus : life[x] = "live"} \cup {p}
    BY <2>1, <2>2
  <2>. QED  BY <1>1, <1>2, <2>1, <2>3 DEF IInv, OnePlace
<1>. QED  BY <1>2, <1>3, <1>4, <1>5, <1>6 DEF IInv, TypeOK

\* READ_RM: rpc_find_pdu takes the answered PDU off its queue and into rpc->pdu.
LEMMA RecordMarkerStep == ASSUME IInv, NEW p \in Pdus, ReadRecordMarker(p) PROVE IInv'
<1>1. TypeConn' /\ TypeApp' /\ faults' \in Nat /\ expiries' \in Nat
  BY DEF ReadRecordMarker, conn, app, IInv, TypeOK, TypeConn, TypeApp
<1>2. TypeFlags'
  BY Zenon, ZenonT(60) DEF ReadRecordMarker, conn, IInv, TypeOK, TypeFlags
<1>3. TypeWire' /\ rm_hash' \in Nat
  <2>1. server[p] \in Nat /\ server[p] > 0 /\ server \in [Pdus -> Nat]
    BY DEF ReadRecordMarker, IInv, TypeOK, TypeWire
  <2>2. server' \in [Pdus -> Nat]
    BY <2>1 DEF ReadRecordMarker
  <2>3. HashXid[p] \in Nat
    BY TransportAssumption
  <2>. QED  BY <2>2, <2>3 DEF ReadRecordMarker, IInv, TypeOK, TypeWire
<1>4. pdu = NULL /\ p # NULL /\ life' = life
  BY TransportAssumption DEF ReadRecordMarker, IInv, ReaderOK, app
<1>5. CASE Findable(p, HashXid[p])
  <2>1. /\ rpc_find_pdu(p, HashXid[p]) /\ num_done' = num_done
        /\ pdu' = p /\ state' = "READ_PAYLOAD"
    BY <1>5 DEF ReadRecordMarker
  <2>2. TypeReader' /\ ReaderOK'
    BY <1>3, <2>1 DEF TypeReader, ReaderOK, InputState
  <2>3. OnePlace' /\ TypeQueues' /\ CountOK'
    <3>1. /\ TypeQueues' /\ CountOK'
          /\ \A i, j \in DOMAIN outqueue' : outqueue'[i] = outqueue'[j] => i = j
          /\ Elems(outqueue') \cap waitpdu' = {}
          /\ p \in Elems(outqueue) \cup waitpdu
          /\ Elems(outqueue') \cup waitpdu' = (Elems(outqueue) \cup waitpdu) \ {p}
      BY <2>1, FindEffect, Zenon, ZenonT(60), SMTT(60)
    <3>2. {r \in Pdus : life[r] = "live"} = Elems(outqueue) \cup waitpdu
      BY <1>4, Zenon, ZenonT(60), SMTT(60) DEF IInv, OnePlace
    <3>3. {r \in Pdus : life'[r] = "live"} = Elems(outqueue) \cup waitpdu
      BY <1>4, <3>2, Zenon, ZenonT(60), SMTT(60)
    <3>4. {r \in Pdus : life'[r] = "live"} =
                Elems(outqueue') \cup waitpdu' \cup ({pdu'} \ {NULL})
      <4>1. {pdu'} \ {NULL} = {p}
        BY <1>4, <2>1, Zenon, ZenonT(60), SMTT(60)
      <4>2. ((Elems(outqueue) \cup waitpdu) \ {p}) \cup {p} = Elems(outqueue) \cup waitpdu
        BY <3>1
      <4>. QED  BY <3>1, <3>3, <4>1, <4>2, Zenon, ZenonT(60), SMTT(60)
    <3>5. pdu' \notin Elems(outqueue') \cup waitpdu'
      BY <2>1, <3>1, Zenon, ZenonT(60), SMTT(60)
    <3>. QED  BY <3>1, <3>4, <3>5, Zenon, ZenonT(60), SMTT(60) DEF OnePlace, Elems
  <2>. QED  BY <1>1, <1>2, <1>3, <2>2, <2>3 DEF IInv, TypeOK
<1>6. CASE ~Findable(p, HashXid[p])
  <2>1. /\ pdu' = NULL /\ state' = "READ_UNKNOWN"
        /\ UNCHANGED <<outqueue, num_done, waitpdu, waitpdu_len>>
    BY <1>6 DEF ReadRecordMarker
  <2>2. TypeReader' /\ ReaderOK'
    BY <1>3, <2>1 DEF TypeReader, ReaderOK, InputState
  <2>3. OnePlace' /\ TypeQueues' /\ CountOK'
    BY <1>4, <2>1 DEF IInv, TypeOK, OnePlace, Elems, TypeQueues, CountOK
  <2>. QED  BY <1>1, <1>2, <1>3, <2>2, <2>3 DEF IInv, TypeOK
<1>. QED  BY <1>5, <1>6

\* A reply for which no buffer can be allocated preserves the invariant.
LEMMA NoMemoryStep == ASSUME IInv, NEW p \in Pdus, ReadNoMemory(p) PROVE IInv'
<1>1. TypeConn' /\ TypeApp' /\ faults' \in Nat /\ expiries' \in Nat
  <2>1. /\ faults' = faults + 1 /\ expiries' = expiries /\ pc' = "requeue"
        /\ UNCHANGED <<conn, app>>
    BY Zenon, ZenonT(60), SMTT(60) DEF ReadNoMemory, Fault
  <2>2. TypeConn /\ TypeApp /\ faults \in Nat /\ expiries \in Nat
    BY Zenon, ZenonT(60), SMTT(60) DEF IInv, TypeOK
  <2>3. TypeConn'
    BY <2>1, <2>2, Zenon, ZenonT(60), SMTT(60) DEF conn, TypeConn
  <2>4. TypeApp'
    BY <2>1, <2>2, Zenon, ZenonT(60), SMTT(60) DEF app, TypeApp
  <2>5. faults' \in Nat /\ expiries' \in Nat
    BY <2>1, <2>2
  <2>. QED  BY <2>3, <2>4, <2>5, Zenon, ZenonT(60), SMTT(60)
<1>2. TypeFlags'
  BY Zenon, ZenonT(60) DEF ReadNoMemory, conn, IInv, TypeOK, TypeFlags
<1>3. TypeWire' /\ TypeReader' /\ ReaderOK'
  <2>1. server[p] \in Nat /\ server[p] > 0 /\ server \in [Pdus -> Nat]
    BY DEF ReadNoMemory, IInv, TypeOK, TypeWire
  <2>2. server' \in [Pdus -> Nat]
    BY <2>1 DEF ReadNoMemory
  <2>3. HashXid[p] \in Nat
    BY TransportAssumption
  <2>. QED
    BY <2>2, <2>3
    DEF ReadNoMemory, IInv, TypeOK, TypeWire, TypeReader, ReaderOK, InputState
<1>4. pdu' = pdu /\ pdu = NULL /\ life' = life
  BY DEF ReadNoMemory, IInv, ReaderOK, app
<1>5. OnePlace' /\ TypeQueues' /\ CountOK'
  <2>1. CASE Findable(p, HashXid[p])
    <3>1. PICK q \in rpc_remove_pdu_from_queue(outqueue, {p}) :
                outqueue' = rpc_return_to_outqueue(q, p)
      BY <2>1 DEF ReadNoMemory
    <3>2. IsQueue(q, Elems(outqueue) \ {p})
      BY Outqueue, RemoveQueue
    <3>3. IsQueue(outqueue', (Elems(outqueue) \ {p}) \cup {p})
      BY <3>1, <3>2, ReturnQueue
    <3>4. /\ num_done' = ResetDone({p})
          /\ waitpdu' = waitpdu \ {p}
          /\ waitpdu_len' = waitpdu_len - (IF p \in waitpdu THEN 1 ELSE 0)
          /\ p \in Elems(outqueue) \cup waitpdu
      BY <2>1 DEF ReadNoMemory, Findable
    <3>5. /\ outqueue' \in Seq(Pdus)
          /\ \A i, j \in DOMAIN outqueue' : outqueue'[i] = outqueue'[j] => i = j
          /\ Elems(outqueue') = Elems(outqueue) \cup {p}
      BY <3>3 DEF IsQueue
    <3>6. OnePlace'
      <4>1. /\ Elems(outqueue') \cap waitpdu' = {}
            /\ Elems(outqueue') \cup waitpdu' = Elems(outqueue) \cup waitpdu
        BY <3>4, <3>5 DEF IInv, OnePlace
      <4>. QED  BY <1>4, <3>5, <4>1 DEF IInv, OnePlace
    <3>7. num_done' \in [Pdus -> 0..RecordSize]
      BY <3>4, TransportAssumption DEF ResetDone, IInv, TypeOK, TypeQueues
    <3>8. waitpdu_len' \in Nat /\ CountOK' /\ waitpdu' \subseteq Pdus
      <4>1. waitpdu \subseteq Pdus /\ waitpdu_len \in Nat /\ CountOK
        BY DEF IInv, TypeOK, TypeQueues
      <4>2. IsFiniteSet(waitpdu) /\ Cardinality(waitpdu) \in Nat
        BY <4>1, PduSets
      <4>3. /\ p \in waitpdu => Cardinality(waitpdu \ {p}) = Cardinality(waitpdu) - 1
            /\ p \notin waitpdu => Cardinality(waitpdu \ {p}) = Cardinality(waitpdu)
        BY <4>2, FS_RemoveElement, Zenon, ZenonT(60)
      <4>4. Cardinality(waitpdu \ {p}) \in Nat
        BY <4>1, PduSets
      <4>5. CASE p \in waitpdu
        BY <3>4, <4>1, <4>2, <4>3, <4>4, <4>5, TransportAssumption DEF CountOK
      <4>6. CASE p \notin waitpdu
        BY <3>4, <4>1, <4>2, <4>3, <4>4, <4>6, TransportAssumption DEF CountOK
      <4>. QED  BY <4>5, <4>6
    <3>. QED  BY <3>5, <3>6, <3>7, <3>8 DEF TypeQueues
  <2>2. CASE ~Findable(p, HashXid[p])
    <3>1. UNCHANGED <<outqueue, num_done, waitpdu, waitpdu_len>>
      BY <2>2 DEF ReadNoMemory, queues
    <3>. QED
      BY <1>4, <3>1 DEF IInv, TypeOK, OnePlace, Elems, TypeQueues, CountOK
  <2>. QED  BY <2>1, <2>2
<1>. QED  BY <1>1, <1>2, <1>3, <1>5 DEF IInv, TypeOK

=============================================================================
