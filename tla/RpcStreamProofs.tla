--------------------------- MODULE RpcStreamProofs --------------------------
(***************************************************************************)
(* A theorem about the bytes RpcTransport writes to a connection.          *)
(***************************************************************************)
EXTENDS RpcTransportProofs

\* A leaf that names no prover is tried with these in turn: the short limits first, then
\* the longer ones, which only a busy machine needs.
USE SMT, Zenon, SMTT(60), ZenonT(60), SMTT(180)

-----------------------------------------------------------------------------
(* The stream of a connection, for a context without timeouts and          *)
(* cancellations: either can take a half-written command off outqueue.     *)
(* StreamIntact is not inductive: a reconnect is right because it starts   *)
(* the head again and every other queued command has nothing written       *)
(* (Partly), a reply never finds its command queued (Replies), and a       *)
(* connection begins with nothing written (Restarted, FdOK).               *)

\* Only the head may be partly written.
Partly ==
    \A p \in Elems(outqueue) :
        /\ num_done[p] < RecordSize
        /\ p # Head(outqueue) => num_done[p] = 0

\* Without a connection nothing is.
Restarted == ~is_connected => \A p \in Elems(outqueue) : num_done[p] = 0

\* The connection carries a part of exactly the command that is partly written.
HalfOK ==
    /\ halfsent # NULL =>
            outqueue # <<>> /\ Head(outqueue) = halfsent /\ num_done[halfsent] > 0
    /\ \A p \in Elems(outqueue) : num_done[p] > 0 => p = halfsent

FdOK ==
    /\ fd = "none" => ~is_connected \/ pc = "destroyed"
    /\ fd = "up" => is_connected

\* A reply that is on its way is the only one, to a command that is not queued.
Replies ==
    \A p \in Pdus :
        /\ server[p] <= 1
        /\ server[p] > 0 => life[p] # "unused" /\ p \notin Elems(outqueue)

Unwritten == \A p \in Pdus : life[p] = "unused" => num_done[p] = 0

SInv ==
    /\ Partly /\ Restarted /\ FdOK /\ Replies /\ Unwritten
    /\ ~failed => HalfOK

\* No command is used for the first time.
SameUnused == \A p \in Pdus : life'[p] = "unused" <=> life[p] = "unused"

\* The invariant holds of a new context.
LEMMA InitSInv == Init => SInv
<1> SUFFICES ASSUME Init PROVE SInv
  OBVIOUS
<1>1. Elems(outqueue) = {} /\ halfsent = NULL /\ is_connected = FALSE /\ fd # "up"
  BY DEF Init, Elems
<1>2. \A p \in Pdus : server[p] = 0 /\ num_done[p] = 0
  BY DEF Init
<1>3. Replies /\ Unwritten
  BY <1>2 DEF Replies, Unwritten
<1>. QED  BY <1>1, <1>3, Zenon, ZenonT(60) DEF SInv, Partly, Restarted, FdOK, HalfOK

\* Commands that are freed were queued, so none is used for the first time.
LEMMA FreedUnused ==
    ASSUME IInv, NEW S, life' = Freed(S),
           S \cap Pdus \subseteq Elems(outqueue) \cup waitpdu \cup ({pdu} \ {NULL})
    PROVE  SameUnused
<1>1. \A p \in Pdus : p \in S => life[p] = "live"
  BY DEF IInv, OnePlace
<1>. QED  BY <1>1 DEF Freed, SameUnused

\* Steps that write nothing and leave the queue alone.
LEMMA StreamSame ==
    ASSUME SInv, UNCHANGED <<outqueue, num_done, halfsent, server>>, SameUnused, FdOK',
           is_connected => is_connected', failed => failed'
    PROVE  SInv'
<1>1. Elems(outqueue)' = Elems(outqueue)
  BY DEF Elems
<1>2. Partly' /\ Restarted' /\ (~failed' => HalfOK')
  BY <1>1, Zenon, ZenonT(60) DEF SInv, Partly, Restarted, HalfOK
<1>3. Replies' /\ Unwritten'
  BY <1>1, Zenon, ZenonT(60) DEF SInv, Replies, Unwritten, SameUnused
<1>. QED  BY <1>2, <1>3, Zenon, ZenonT(60) DEF SInv

\* Steps after which nothing is queued.
LEMMA StreamEmptied ==
    ASSUME IInv, SInv, outqueue' = <<>>, SameUnused, FdOK',
           \A p \in Pdus : num_done'[p] \in {num_done[p], 0} /\ server'[p] \in {server[p], 0},
           ~failed' => halfsent' = NULL
    PROVE  SInv'
<1>1. Elems(outqueue') = {}
  BY DEF Elems
<1>2. Partly' /\ Restarted' /\ (~failed' => HalfOK')
  BY <1>1, Zenon, ZenonT(60) DEF Partly, Restarted, HalfOK
<1>3. Replies'
  <2>1. \A p \in Pdus : server'[p] <= 1 /\ (server'[p] > 0 => server[p] > 0)
    BY DEF SInv, Replies
  <2>. QED  BY <1>1, <2>1, Zenon, ZenonT(60) DEF SInv, Replies, SameUnused
<1>4. Unwritten'
  BY Zenon, ZenonT(60) DEF SInv, Unwritten, SameUnused
<1>. QED  BY <1>2, <1>3, <1>4, Zenon, ZenonT(60) DEF SInv

\* Steps that end a connection, or find none, and keep the queue: nothing of it is written.
LEMMA StreamFresh ==
    ASSUME IInv, SInv, UNCHANGED <<outqueue, num_done>>, ~is_connected, SameUnused, FdOK',
           FreshWire
    PROVE  SInv'
<1>1. Elems(outqueue)' = Elems(outqueue) /\ Elems(outqueue) \subseteq Pdus
  BY Outqueue DEF Elems
<1>2. \A p \in Elems(outqueue) : num_done'[p] = 0
  BY DEF SInv, Restarted
<1>3. Partly' /\ Restarted'
  BY <1>1, <1>2, TransportAssumption DEF Partly, Restarted
<1>4. halfsent' = NULL /\ \A p \in Pdus : server'[p] = 0
  BY DEF FreshWire
<1>5. HalfOK' /\ Replies'
  BY <1>1, <1>2, <1>4 DEF HalfOK, Replies
<1>6. Unwritten'
  BY Zenon, ZenonT(60) DEF SInv, Unwritten, SameUnused
<1>. QED  BY <1>3, <1>5, <1>6, Zenon, ZenonT(60) DEF SInv

\* rpc_connect_async and rpc_disconnect.
LEMMA ConnectStream == ASSUME IInv, SInv, rpc_connect_async PROVE SInv'
<1>1. /\ UNCHANGED <<outqueue, num_done, life>> /\ FreshWire
      /\ pc = "idle" /\ fd = "none" /\ is_connected' = is_connected
      /\ fd' # "up"
  BY DEF rpc_connect_async, queues, app
<1>2. ~is_connected
  BY <1>1 DEF SInv, FdOK
<1>3. FdOK' /\ SameUnused
  BY <1>1, <1>2, Zenon, ZenonT(60) DEF FdOK, SameUnused
<1>. QED  BY <1>1, <1>2, <1>3, StreamFresh, Zenon, ZenonT(60)

\* The end of a connection by the application.
LEMMA DisconnectStream ==
    ASSUME IInv, SInv, rpc_disconnect \/ rpc_destroy_context PROVE SInv'
<1>1. /\ num_done' = num_done /\ FreshWire /\ fd' = "none" /\ fd' # "up"
      /\ pc' = "destroyed" \/ ~is_connected'
  <2>1. CASE rpc_disconnect
    BY <2>1, Zenon, ZenonT(60) DEF rpc_disconnect
  <2>2. CASE rpc_destroy_context
    BY <2>2, Zenon, ZenonT(60) DEF rpc_destroy_context
  <2>. QED  BY <2>1, <2>2
<1>2. FdOK'
  BY <1>1, Zenon, ZenonT(60) DEF FdOK
<1>3. CASE UNCHANGED <<outqueue, life>> /\ ~is_connected
  <2>1. SameUnused
    BY <1>3, Zenon, ZenonT(60) DEF SameUnused
  <2>. QED  BY <1>1, <1>2, <1>3, <2>1, StreamFresh, Zenon, ZenonT(60)
<1>4. CASE \E status : rpc_purge_all_pdus(outqueue, waitpdu, status)
  <2>1. outqueue' = <<>> /\ life' = Freed(Elems(outqueue) \cup waitpdu)
    BY <1>4 DEF rpc_purge_all_pdus
  <2>2. SameUnused
    BY <2>1, FreedUnused
  <2>3. halfsent' = NULL
        /\ \A p \in Pdus : num_done'[p] \in {num_done[p], 0} /\ server'[p] \in {server[p], 0}
    BY <1>1 DEF FreshWire
  <2>. QED  BY <1>2, <2>1, <2>2, <2>3, StreamEmptied, Zenon, ZenonT(60)
<1>5. (UNCHANGED <<outqueue, life>> /\ ~is_connected)
      \/ \E status : rpc_purge_all_pdus(outqueue, waitpdu, status)
  BY Zenon, ZenonT(60) DEF rpc_disconnect, rpc_destroy_context
<1>. QED  BY <1>3, <1>4, <1>5

\* Connecting, errors of the socket and of reading, and the ends of replies.
LEMMA OtherStream ==
    ASSUME IInv, SInv,
           \/ rpc_set_resiliency \/ ServiceConnected \/ ServiceSocketError
           \/ ServiceConnectFailed \/ ReadFails \/ ReadUnknown \/ ReadData
           \/ \E kind : ReadPayload(kind)
    PROVE  SInv'
<1>1. /\ UNCHANGED <<outqueue, num_done, halfsent, server>>
      /\ is_connected => is_connected'
      /\ failed => failed'
  <2>1. UNCHANGED <<outqueue, num_done, halfsent, server>>
    BY DEF rpc_set_resiliency, ServiceConnected, ServiceSocketError,
       ServiceConnectFailed, ReadFails, ReadUnknown, ReadData, ReadPayload, queues, wire
  <2>2. /\ is_connected' = is_connected \/ is_connected' = TRUE
        /\ failed' = failed \/ failed' = TRUE
    BY Zenon, ZenonT(60) DEF rpc_set_resiliency, ServiceConnected, ServiceSocketError,
       ServiceConnectFailed, ReadFails, ReadUnknown, ReadData, ReadPayload, conn
  <2>3. (is_connected => is_connected') /\ (failed => failed')
    BY <2>2
  <2>. QED  BY <2>1, <2>3
<1>2. FdOK'
  <2>1. \/ fd' = fd /\ is_connected' = is_connected
        \/ fd' = "up" /\ is_connected' = TRUE
        \/ fd' = "dead"
    BY DEF rpc_set_resiliency, ServiceConnected, ServiceSocketError,
       ServiceConnectFailed, ReadFails, ReadUnknown, ReadData, ReadPayload, conn, SocketFault
  <2>2. pc = "idle"
    BY Zenon, ZenonT(60) DEF rpc_set_resiliency, ServiceConnected, ServiceSocketError,
       ServiceConnectFailed, ReadFails, ReadUnknown, ReadData, ReadPayload
  <2>. QED  BY <2>1, <2>2 DEF SInv, FdOK
<1>3. SameUnused
  <2>1. \/ life' = life
        \/ life' = Freed({pdu})
    BY Zenon, ZenonT(60) DEF rpc_set_resiliency, ServiceConnected, ServiceSocketError,
       ServiceConnectFailed, ReadFails, ReadUnknown, ReadData, ReadPayload, app,
       rpc_finished_pdu
  <2>2. CASE life' = life
    BY <2>2, Zenon, ZenonT(60) DEF SameUnused
  <2>3. CASE life' = Freed({pdu})
    <3>1. {pdu} \cap Pdus \subseteq Elems(outqueue) \cup waitpdu \cup ({pdu} \ {NULL})
      BY TransportAssumption
    <3>. QED  BY <2>3, <3>1, FreedUnused
  <2>. QED  BY <2>1, <2>2, <2>3
<1>. QED  BY <1>1, <1>2, <1>3, StreamSame, Zenon, ZenonT(60)

-----------------------------------------------------------------------------
(* Queueing, writing and reading.                                          *)

\* Removing a command that is not queued changes nothing at the head.
LEMMA SameHead ==
    ASSUME NEW q, NEW Q, IsQueue(q, Q), NEW p, p \notin Q, q # <<>>,
           NEW r \in rpc_remove_pdu_from_queue(q, {p})
    PROVE  r # <<>> /\ Head(r) = Head(q)
<1>1. q \in Seq(Pdus) /\ 1 \in DOMAIN q /\ Head(q) = q[1]
  BY DEF IsQueue
<1>2. r \in Seq(Pdus) /\ Elems(r) = Q
  <2>1. IsQueue(r, Q \ {p})
    BY RemoveQueue
  <2>. QED  BY <2>1 DEF IsQueue
<1>3. q[1] \in Elems(r)
  BY <1>1, <1>2, Zenon, ZenonT(60) DEF IsQueue, Elems
<1>4. PICK j \in DOMAIN r : r[j] = q[1]
  BY <1>3 DEF Elems
<1>5. r # <<>> /\ Head(r) = r[1] /\ 1 \in DOMAIN r /\ j \in Nat /\ j >= 1
  BY <1>2, <1>4
<1>6. ASSUME j # 1 PROVE FALSE
  <2>1. 1 < j
    BY <1>5, <1>6
  <2>2. Precedes(q, r[1], r[j])
    BY <1>4, <1>5, <2>1 DEF rpc_remove_pdu_from_queue
  <2>3. PICK a, b \in DOMAIN q : a < b /\ q[b] = q[1]
    BY <1>4, <2>2 DEF Precedes
  <2>4. b = 1 /\ a \in Nat /\ a >= 1
    BY <1>1, <2>3 DEF IsQueue
  <2>. QED  BY <2>3, <2>4
<1>. QED  BY <1>1, <1>4, <1>5, <1>6

\* writev(): the record that continues is the one the connection carries a part of.
LEMMA WriteStream ==
    ASSUME IInv, NEW q, NEW Q \in SUBSET Pdus, IsQueue(q, Q), q # <<>>,
           NEW n \in 0..Len(q), NEW k \in 0..(RecordSize - 1),
           rpc_write_to_socket(q, n, k),
           \A p \in Q : /\ num_done[p] < RecordSize
                        /\ p # Head(q) => num_done[p] = 0
                        /\ server[p] = 0
                        /\ life'[p] # "unused",
           \A p \in Pdus \ Q : life'[p] = "unused" <=> life[p] = "unused",
           Replies, Unwritten,
           ~failed => /\ halfsent # NULL => Head(q) = halfsent /\ num_done[halfsent] > 0
                      /\ num_done[Head(q)] > 0 => Head(q) = halfsent,
           is_connected', FdOK', failed' = failed
    PROVE  SInv'
<1> DEFINE sent == {q[i] : i \in 1..n}
           next == IF n < Len(q) THEN q[n + 1] ELSE NULL
<1>1. q \in Seq(Pdus) /\ Len(q) \in Nat /\ n \in Nat /\ Head(q) = q[1]
  BY DEF IsQueue
<1>2. /\ sent \subseteq Q
      /\ IsQueue(SubSeq(q, n + 1, Len(q)), Q \ sent)
  BY SplitQueue, Zenon, ZenonT(60)
<1>3. /\ outqueue' = SubSeq(q, n + 1, Len(q))
      /\ num_done' = [p \in Pdus |-> IF p \in sent THEN RecordSize
                                     ELSE IF p = next THEN k ELSE num_done[p]]
      /\ IF Aligned(q)
         THEN /\ halfsent' = IF k > 0 THEN next ELSE NULL
              /\ server' = [p \in Pdus |-> IF p \in sent THEN server[p] + 1 ELSE server[p]]
         ELSE UNCHANGED wire
      /\ next = NULL => k = 0
  <2>1. /\ outqueue' = SubSeq(q, n + 1, Len(q))
        /\ num_done' = [p \in Pdus |-> IF p \in sent THEN RecordSize
                                       ELSE IF p = next THEN k ELSE num_done[p]]
        /\ IF Aligned(q)
           THEN /\ halfsent' = IF k > 0 THEN next ELSE NULL
                /\ server' = [p \in Pdus |-> IF p \in sent THEN server[p] + 1 ELSE server[p]]
           ELSE UNCHANGED wire
    BY Zenon, ZenonT(60) DEF rpc_write_to_socket
  <2>2. next = NULL => k = 0
    <3> SUFFICES ASSUME next = NULL PROVE k = 0
      OBVIOUS
    <3>1. n = Len(q)
      <4>1. n < Len(q) => q[n + 1] \in Pdus
        BY <1>1
      <4>. QED  BY <1>1, <4>1, TransportAssumption
    <3>2. ~(n < Window(q))
      BY <1>1, <3>1, TransportAssumption DEF Window, IInv, TypeOK, TypeQueues
    <3>. QED  BY <3>2 DEF rpc_write_to_socket
  <2>. QED  BY <2>1, <2>2
<1>4. /\ Elems(outqueue') = Q \ sent
      /\ next # NULL => next \in Q \ sent /\ outqueue' # <<>> /\ Head(outqueue') = next
      /\ \A p \in Q \ sent : p = Head(q) => p = next
  <2>1. outqueue' \in Seq(Pdus) /\ Elems(outqueue') = Q \ sent
    BY <1>2, <1>3 DEF IsQueue
  <2>2. ASSUME next # NULL
        PROVE  next \in Q \ sent /\ outqueue' # <<>> /\ Head(outqueue') = next
    <3>1. n < Len(q) /\ next = q[n + 1]
      BY <2>2
    <3>2. Len(outqueue') = Len(q) - n /\ outqueue'[1] = q[n + 1]
      BY <1>1, <1>3, <3>1
    <3>3. outqueue' # <<>> /\ Head(outqueue') = outqueue'[1] /\ 1 \in DOMAIN outqueue'
      BY <1>1, <2>1, <3>1, <3>2
    <3>4. next \in Elems(outqueue')
      BY <3>1, <3>2, <3>3 DEF Elems
    <3>. QED  BY <2>1, <3>1, <3>2, <3>3, <3>4, Zenon, ZenonT(60)
  <2>3. ASSUME NEW p \in Q \ sent, p = Head(q) PROVE p = next
    <3>1. ~(1 \in 1..n)
      BY <1>1, <2>3
    <3>2. n = 0 /\ 0 < Len(q)
      BY <1>1, <3>1
    <3>. QED  BY <1>1, <2>3, <3>2
  <2>. QED  BY <2>1, <2>2, <2>3
<1> HIDE DEF sent, next
<1>5. \A p \in Q \ sent : num_done'[p] < RecordSize /\ (p # next => num_done'[p] = 0)
  <2>1. RecordSize \in Nat /\ k < RecordSize
    BY TransportAssumption
  <2>. QED  BY <1>3, <1>4, <2>1
<1>6. Partly'
  <2>1. ASSUME NEW p \in Elems(outqueue'), p # Head(outqueue') PROVE num_done'[p] = 0
    <3>1. p \in Q \ sent
      BY <1>4
    <3>2. CASE next = NULL
      BY <1>5, <3>1, <3>2, TransportAssumption
    <3>3. CASE next # NULL
      BY <1>4, <1>5, <2>1, <3>1, <3>3, Zenon, ZenonT(60)
    <3>. QED  BY <3>2, <3>3
  <2>. QED  BY <1>4, <1>5, <2>1, Zenon, ZenonT(60) DEF Partly
<1>7. ~failed' => HalfOK'
  <2> SUFFICES ASSUME ~failed PROVE HalfOK'
    BY Zenon, ZenonT(60)
  <2>1. Aligned(q)
    <3>1. num_done[Head(q)] \in Nat
      BY <1>1 DEF IInv, TypeOK, TypeQueues
    <3>2. CASE num_done[Head(q)] > 0
      BY <3>2 DEF Aligned
    <3>3. CASE ~(num_done[Head(q)] > 0)
      <4>1. halfsent = NULL
        BY <3>1, <3>3
      <4>. QED  BY <3>3, <4>1 DEF Aligned
    <3>. QED  BY <3>2, <3>3
  <2>2. halfsent' = IF k > 0 THEN next ELSE NULL
    BY <1>3, <2>1
  <2>3. ASSUME k > 0
        PROVE  next # NULL /\ next \in Pdus /\ num_done'[next] = k
    <3>1. next # NULL
      BY <1>3, <2>3
    <3>. QED  BY <1>3, <1>4, <3>1
  <2>4. CASE k > 0
    <3>1. halfsent' = next
      BY <2>2, <2>4
    <3>. QED  BY <1>4, <1>5, <2>3, <2>4, <3>1 DEF HalfOK
  <2>5. CASE ~(k > 0)
    <3>1. halfsent' = NULL
      BY <2>2, <2>5
    <3>2. \A p \in Q \ sent : num_done'[p] = 0
      <4>1. k = 0
        BY <2>5
      <4>. QED  BY <1>3, <1>4, <4>1
    <3>. QED  BY <1>4, <3>1, <3>2 DEF HalfOK
  <2>. QED  BY <2>4, <2>5
<1>8. Replies'
  <2> SUFFICES ASSUME NEW p \in Pdus
               PROVE  /\ server'[p] <= 1
                      /\ server'[p] > 0 => life'[p] # "unused" /\ p \notin Elems(outqueue')
    BY DEF Replies
  <2>1. server[p] \in Nat /\ server[p] <= 1
    BY DEF IInv, TypeOK, TypeWire, Replies
  <2>2. CASE p \in Q
    <3>1. server[p] = 0 /\ life'[p] # "unused"
      BY <2>2
    <3>2. server'[p] <= 1 /\ (server'[p] > 0 => p \in sent)
      BY <1>3, <2>2, <3>1 DEF wire
    <3>. QED  BY <1>4, <3>1, <3>2
  <2>3. CASE p \notin Q
    <3>1. p \notin sent /\ p \notin Elems(outqueue')
      BY <1>2, <1>4, <2>3
    <3>2. server'[p] = server[p]
      BY <1>3, <3>1 DEF wire
    <3>. QED  BY <2>1, <2>3, <3>1, <3>2 DEF Replies
  <2>. QED  BY <2>2, <2>3
<1>9. Unwritten'
  <2> SUFFICES ASSUME NEW p \in Pdus, life'[p] = "unused" PROVE num_done'[p] = 0
    BY DEF Unwritten
  <2>1. p \notin Q /\ num_done[p] = 0
    BY DEF Unwritten
  <2>2. p \notin sent /\ p # next
    BY <1>2, <1>4, <2>1, TransportAssumption
  <2>. QED  BY <1>3, <2>1, <2>2
<1>. QED  BY <1>6, <1>7, <1>8, <1>9, Zenon, ZenonT(60) DEF SInv, Restarted

\* rpc_queue_pdu, which may write, and POLLOUT.
LEMMA QueueStream == ASSUME IInv, SInv, NEW p \in Pdus, rpc_queue_pdu(p) PROVE SInv'
<1>1. /\ life[p] = "unused" /\ life' = [life EXCEPT ![p] = "live"]
      /\ UNCHANGED <<fd, is_connected, failed, pc>>
  BY DEF rpc_queue_pdu, conn
<1>2. \A x \in Pdus : life'[x] = IF x = p THEN "live" ELSE life[x]
  BY <1>1 DEF IInv, TypeOK, TypeApp
<1>3. FdOK'
  BY <1>1, Zenon, ZenonT(60) DEF SInv, FdOK
<1>4. num_done[p] = 0 /\ server[p] = 0
  <2>1. server[p] \in Nat
    BY DEF IInv, TypeOK, TypeWire
  <2>. QED  BY <1>1, <2>1 DEF SInv, Unwritten, Replies
<1>5. CASE outqueue = <<>> /\ fd = "up"
  <2>1. PICK n \in 0..1, k \in 0..(RecordSize - 1) : rpc_write_to_socket(<<p>>, n, k)
    BY <1>5 DEF rpc_queue_pdu
  <2>2. IsQueue(<<p>>, {p}) /\ Len(<<p>>) = 1 /\ <<p>> # <<>> /\ Head(<<p>>) = p
    <3>1. <<p>> \in Seq(Pdus) /\ DOMAIN <<p>> = {1} /\ <<p>>[1] = p
      OBVIOUS
    <3>. QED  BY <3>1 DEF IsQueue, Elems
  <2>3. /\ num_done[p] < RecordSize /\ ~(num_done[p] > 0)
        /\ life'[p] # "unused"
        /\ \A x \in Pdus \ {p} : life'[x] = "unused" <=> life[x] = "unused"
    BY <1>2, <1>4, TransportAssumption
  <2>4. is_connected' /\ failed' = failed /\ Replies /\ Unwritten
    BY <1>1, <1>5, Zenon, ZenonT(60) DEF SInv, FdOK
  <2>5. ~failed => halfsent = NULL
    BY <1>5, Zenon, ZenonT(60) DEF SInv, HalfOK
  <2>6. n \in 0..Len(<<p>>) /\ {p} \in SUBSET Pdus
    BY <2>2
  <2>. QED  BY <1>3, <1>4, <2>1, <2>2, <2>3, <2>4, <2>5, <2>6, WriteStream
<1>6. CASE ~(outqueue = <<>> /\ fd = "up")
  <2>1. outqueue' = Append(outqueue, p) /\ UNCHANGED <<num_done, halfsent, server>>
    BY <1>6 DEF rpc_queue_pdu, wire
  <2>2. p \notin Elems(outqueue)
    BY <1>1 DEF IInv, OnePlace
  <2>3. IsQueue(outqueue', Elems(outqueue) \cup {p})
    BY <2>1, <2>2, Outqueue, AppendQueue
  <2>4. Elems(outqueue') = Elems(outqueue) \cup {p}
    BY <2>3 DEF IsQueue
  <2>5. outqueue # <<>> => outqueue' # <<>> /\ Head(outqueue') = Head(outqueue)
    BY <2>1 DEF IInv, TypeOK, TypeQueues
  <2>6. Elems(outqueue) # {} => outqueue # <<>>
    BY DEF Elems
  <2>7. Partly'
    <3>1. num_done[p] < RecordSize
      BY <1>4, TransportAssumption
    <3>. QED  BY <1>4, <2>1, <2>4, <2>5, <2>6, <3>1, Zenon, ZenonT(60) DEF SInv, Partly
  <2>8. Restarted'
    BY <1>1, <1>4, <2>1, <2>4, Zenon, ZenonT(60) DEF SInv, Restarted
  <2>9. ~failed' => HalfOK'
    <3> SUFFICES ASSUME ~failed PROVE HalfOK'
      BY <1>1, Zenon, ZenonT(60)
    <3>1. ~(num_done'[p] > 0)
      BY <1>4, <2>1
    <3>. QED  BY <2>1, <2>4, <2>5, <3>1, Zenon, ZenonT(60) DEF SInv, HalfOK
  <2>10. Replies'
    <3>1. ~(server'[p] > 0)
      BY <1>4, <2>1
    <3>. QED  BY <1>2, <2>1, <2>4, <3>1 DEF SInv, Replies
  <2>11. Unwritten'
    BY <1>2, <1>4, <2>1 DEF SInv, Unwritten
  <2>. QED  BY <1>3, <2>7, <2>8, <2>9, <2>10, <2>11, Zenon, ZenonT(60) DEF SInv
<1>. QED  BY <1>5, <1>6

\* POLLOUT.
LEMMA ServiceWriteStream == ASSUME IInv, SInv, ServiceWrite PROVE SInv'
<1>1. PICK n \in 0..Len(outqueue), k \in 0..(RecordSize - 1) :
        /\ rpc_write_to_socket(outqueue, n, k)
        /\ \/ UNCHANGED <<fd, pc, faults>>
           \/ n < Window(outqueue) /\ SocketFault /\ pc' = "requeue"
  BY DEF ServiceWrite
<1>2. /\ outqueue # <<>> /\ fd = "up" /\ UNCHANGED <<life, is_connected, failed>>
  BY DEF ServiceWrite, app
<1>3. is_connected
  BY <1>2, Zenon, ZenonT(60) DEF SInv, FdOK
<1>4. FdOK' /\ is_connected' /\ failed' = failed /\ Replies /\ Unwritten
  <2>1. fd' # "none" /\ is_connected' = is_connected /\ failed' = failed
    BY <1>1, <1>2 DEF SocketFault
  <2>. QED  BY <1>3, <2>1, Zenon, ZenonT(60) DEF SInv, FdOK
<1>5. /\ IsQueue(outqueue, Elems(outqueue)) /\ Elems(outqueue) \in SUBSET Pdus
      /\ Head(outqueue) \in Elems(outqueue)
  <2>1. IsQueue(outqueue, Elems(outqueue)) /\ Elems(outqueue) \in SUBSET Pdus
    BY Outqueue
  <2>2. outqueue \in Seq(Pdus)
    BY <2>1 DEF IsQueue
  <2>3. 1 \in DOMAIN outqueue /\ Head(outqueue) = outqueue[1]
    BY <1>2, <2>2
  <2>. QED  BY <2>1, <2>3 DEF Elems
<1>6. ASSUME NEW p \in Elems(outqueue)
      PROVE  /\ num_done[p] < RecordSize
             /\ p # Head(outqueue) => num_done[p] = 0
             /\ server[p] = 0
             /\ life'[p] # "unused"
  <2>1. server[p] \in Nat /\ life[p] = "live"
    BY <1>5 DEF IInv, OnePlace, TypeOK, TypeWire
  <2>2. ~(server[p] > 0)
    BY <1>5, Zenon, ZenonT(60) DEF SInv, Replies
  <2>. QED  BY <1>2, <2>1, <2>2 DEF SInv, Partly
<1>7. \A p \in Pdus \ Elems(outqueue) : life'[p] = "unused" <=> life[p] = "unused"
  BY <1>2
<1>8. ~failed => /\ halfsent # NULL => Head(outqueue) = halfsent /\ num_done[halfsent] > 0
                 /\ num_done[Head(outqueue)] > 0 => Head(outqueue) = halfsent
  BY <1>5, Zenon, ZenonT(60) DEF SInv, HalfOK
<1>9. rpc_write_to_socket(outqueue, n, k)
  BY <1>1
<1>. QED  BY <1>2, <1>4, <1>5, <1>6, <1>7, <1>8, <1>9, WriteStream

\* A reply begins to arrive: its command is not queued.
LEMMA MarkerStream == ASSUME IInv, SInv, NEW p \in Pdus, ReadRecordMarker(p) PROVE SInv'
<1>1. /\ server[p] > 0 /\ server' = [server EXCEPT ![p] = @ - 1]
      /\ UNCHANGED <<num_done, halfsent, life, fd, is_connected, failed, pc>>
  BY DEF ReadRecordMarker, conn, app
<1>2. /\ server \in [Pdus -> Nat] /\ server[p] = 1 /\ p \notin Elems(outqueue)
  <2>1. server \in [Pdus -> Nat] /\ server[p] \in Nat
    BY DEF IInv, TypeOK, TypeWire
  <2>. QED  BY <1>1, <2>1 DEF SInv, Replies
<1>3. UNCHANGED outqueue
  BY <1>2 DEF ReadRecordMarker, rpc_find_pdu
<1>4. Elems(outqueue') = Elems(outqueue)
  BY <1>3
<1>5. \A x \in Pdus : server'[x] = IF x = p THEN 0 ELSE server[x]
  BY <1>1, <1>2
<1>6. Replies'
  BY <1>1, <1>4, <1>5 DEF SInv, Replies
<1>7. Partly' /\ Restarted' /\ FdOK' /\ Unwritten'
  BY <1>1, <1>3, <1>4, Zenon, ZenonT(60) DEF SInv, Partly, Restarted, FdOK, Unwritten
<1>8. ~failed' => HalfOK'
  BY <1>1, <1>3, <1>4, Zenon, ZenonT(60) DEF SInv, HalfOK
<1>. QED  BY <1>6, <1>7, <1>8, Zenon, ZenonT(60) DEF SInv

\* adjust_inbuf fails: the command goes behind the head, to be sent from its start.
LEMMA NoMemoryStream == ASSUME IInv, SInv, NEW p \in Pdus, ReadNoMemory(p) PROVE SInv'
<1>1. /\ server[p] > 0 /\ server' = [server EXCEPT ![p] = @ - 1]
      /\ UNCHANGED <<halfsent, life, fd, is_connected, failed>> /\ pc = "idle"
  BY DEF ReadNoMemory, conn, app
<1>2. /\ server \in [Pdus -> Nat] /\ server[p] = 1 /\ p \notin Elems(outqueue)
      /\ life[p] # "unused"
  <2>1. server \in [Pdus -> Nat] /\ server[p] \in Nat
    BY DEF IInv, TypeOK, TypeWire
  <2>. QED  BY <1>1, <2>1 DEF SInv, Replies
<1>3. \A x \in Pdus : server'[x] = IF x = p THEN 0 ELSE server[x]
  BY <1>1, <1>2
<1>4. FdOK'
  BY <1>1 DEF SInv, FdOK
<1>5. CASE ~Findable(p, HashXid[p])
  <2>1. UNCHANGED <<outqueue, num_done>>
    BY <1>5 DEF ReadNoMemory, queues
  <2>2. Elems(outqueue') = Elems(outqueue)
    BY <2>1
  <2>3. Replies'
    BY <1>1, <1>3, <2>2 DEF SInv, Replies
  <2>4. Partly' /\ Restarted' /\ Unwritten'
    BY <1>1, <2>1, <2>2, Zenon, ZenonT(60) DEF SInv, Partly, Restarted, Unwritten
  <2>5. ~failed' => HalfOK'
    BY <1>1, <2>1, <2>2, Zenon, ZenonT(60) DEF SInv, HalfOK
  <2>. QED  BY <1>4, <2>3, <2>4, <2>5, Zenon, ZenonT(60) DEF SInv
<1>6. CASE Findable(p, HashXid[p])
  <2>1. PICK q \in rpc_remove_pdu_from_queue(outqueue, {p}) :
              outqueue' = rpc_return_to_outqueue(q, p)
    BY <1>6 DEF ReadNoMemory
  <2>2. num_done' = ResetDone({p})
    BY <1>6 DEF ReadNoMemory
  <2>3. \A x \in Pdus : num_done'[x] = IF x = p THEN 0 ELSE num_done[x]
    BY <2>2 DEF ResetDone
  <2>4. IsQueue(outqueue, Elems(outqueue)) /\ Elems(outqueue) \subseteq Pdus
    BY Outqueue
  <2>5. IsQueue(q, Elems(outqueue) \ {p})
    BY <2>1, <2>4, RemoveQueue
  <2>6. IsQueue(outqueue', (Elems(outqueue) \ {p}) \cup {p})
    BY <2>1, <2>5, ReturnQueue
  <2>7. Elems(outqueue') = Elems(outqueue) \cup {p}
    BY <2>6 DEF IsQueue
  <2>8. outqueue # <<>> => outqueue' # <<>> /\ Head(outqueue') = Head(outqueue)
    <3> SUFFICES ASSUME outqueue # <<>>
                 PROVE  outqueue' # <<>> /\ Head(outqueue') = Head(outqueue)
      OBVIOUS
    <3>1. q # <<>> /\ Head(q) = Head(outqueue)
      BY <1>2, <2>1, <2>4, SameHead
    <3>2. q \in Seq(Pdus)
      BY <2>5 DEF IsQueue
    <3>3. outqueue' = <<Head(q), p>> \o Tail(q)
      BY <2>1, <3>1 DEF rpc_return_to_outqueue
    <3>4. Head(q) \in Pdus /\ Tail(q) \in Seq(Pdus)
      BY <3>1, <3>2
    <3>. QED  BY <3>1, <3>3, <3>4
  <2>9. Elems(outqueue) # {} => outqueue # <<>>
    BY DEF Elems
  <2>10. ASSUME NEW x \in Elems(outqueue) PROVE num_done'[x] = num_done[x] /\ x # p
    BY <1>2, <2>3, <2>4
  <2>11. num_done'[p] = 0 /\ 0 < RecordSize /\ ~(0 > 0)
    BY <2>3, TransportAssumption
  <2>12. Partly'
    BY <2>7, <2>8, <2>9, <2>10, <2>11, Zenon, ZenonT(60) DEF SInv, Partly
  <2>13. Restarted'
    BY <1>1, <2>7, <2>10, <2>11, Zenon, ZenonT(60) DEF SInv, Restarted
  <2>14. ~failed' => HalfOK'
    <3> SUFFICES ASSUME ~failed PROVE HalfOK'
      BY <1>1, Zenon, ZenonT(60)
    <3>1. HalfOK
      BY Zenon, ZenonT(60) DEF SInv
    <3>2. ASSUME halfsent # NULL
          PROVE  outqueue' # <<>> /\ Head(outqueue') = halfsent /\ num_done'[halfsent] > 0
      <4>1. outqueue # <<>> /\ Head(outqueue) = halfsent /\ num_done[halfsent] > 0
        BY <3>1, <3>2 DEF HalfOK
      <4>2. Head(outqueue) \in Elems(outqueue)
        BY <4>1 DEF IInv, TypeOK, TypeQueues, Elems
      <4>. QED  BY <2>8, <2>10, <4>1, <4>2, Zenon, ZenonT(60)
    <3>3. ASSUME NEW x \in Elems(outqueue'), num_done'[x] > 0 PROVE x = halfsent
      BY <2>7, <2>10, <2>11, <3>1, <3>3, Zenon, ZenonT(60) DEF HalfOK
    <3>. QED  BY <1>1, <3>2, <3>3, Zenon, ZenonT(60) DEF HalfOK
  <2>15. Replies'
    BY <1>1, <1>3, <2>7 DEF SInv, Replies
  <2>16. Unwritten'
    BY <1>1, <2>3 DEF SInv, Unwritten
  <2>. QED  BY <1>4, <2>12, <2>13, <2>14, <2>15, <2>16, Zenon, ZenonT(60) DEF SInv
<1>. QED  BY <1>5, <1>6

\* A reconnect sends every command from its start on the new connection.
LEMMA RequeueStream == ASSUME IInv, SInv, rpc_reconnect_requeue PROVE SInv'
<1>1. pc' = "idle" /\ pc \in {"requeue", "requeue_cb"}
  BY DEF rpc_reconnect_requeue
<1>2. CASE auto_reconnect = 0
  <2>1. /\ rpc_purge_all_pdus(outqueue, waitpdu, "ERROR") /\ failed' = TRUE
        /\ UNCHANGED <<num_done, fd, is_connected, halfsent, server>>
    BY <1>2 DEF rpc_reconnect_requeue, wire
  <2>2. outqueue' = <<>> /\ life' = Freed(Elems(outqueue) \cup waitpdu)
    BY <2>1 DEF rpc_purge_all_pdus
  <2>3. SameUnused
    BY <2>2, FreedUnused
  <2>4. FdOK'
    BY <1>1, <2>1 DEF SInv, FdOK
  <2>5. ~failed' => halfsent' = NULL
    BY <2>1, Zenon, ZenonT(60)
  <2>6. \A p \in Pdus : num_done'[p] \in {num_done[p], 0} /\ server'[p] \in {server[p], 0}
    BY <2>1
  <2>. QED  BY <2>2, <2>3, <2>4, <2>5, <2>6, StreamEmptied, Zenon, ZenonT(60)
<1>3. CASE auto_reconnect # 0
  <2> DEFINE moved == waitpdu \cup ({pdu} \ {NULL})
             head == IF outqueue = <<>> THEN {} ELSE {Head(outqueue)}
  <2>1. /\ is_connected' = FALSE /\ FreshWire
        /\ num_done' = ResetDone(moved \cup head)
    BY <1>3 DEF rpc_reconnect_requeue
  <2>2. FdOK'
    <3>1. fd' # "up"
      BY <1>3 DEF rpc_reconnect_requeue
    <3>. QED  BY <2>1, <3>1, Zenon, ZenonT(60) DEF FdOK
  <2>3. \/ UNCHANGED life
        \/ /\ outqueue' = <<>>
           /\ \E S : life' = Freed(S)
    BY <1>3 DEF rpc_reconnect_requeue, rpc_purge_all_pdus
  <2>4. IInv'
    BY RequeueStep
  <2>5. halfsent' = NULL /\ \A p \in Pdus : server'[p] = 0
    BY <2>1 DEF FreshWire
  <2>6. ASSUME NEW p \in Elems(outqueue') PROVE p \in Pdus /\ num_done'[p] = 0
    <3>1. UNCHANGED life
      BY <2>3, <2>6 DEF Elems
    <3>2. p \in Pdus /\ life'[p] = "live"
      BY <2>4, <2>6, Outqueue, Zenon, ZenonT(60) DEF IInv, OnePlace, TypeOK, TypeQueues
    <3>3. p \in Elems(outqueue) \cup moved
      BY <3>1, <3>2 DEF IInv, OnePlace
    <3>4. CASE p \in moved \cup head
      BY <2>1, <3>2, <3>4 DEF ResetDone
    <3>5. CASE p \notin moved \cup head
      <4>1. p \in Elems(outqueue) /\ p # Head(outqueue)
        <5>1. p \in Elems(outqueue)
          BY <3>3, <3>5
        <5>2. outqueue # <<>>
          BY <5>1 DEF Elems
        <5>. QED  BY <3>5, <5>1, <5>2
      <4>2. num_done[p] = 0
        BY <4>1, Zenon, ZenonT(60) DEF SInv, Partly
      <4>. QED  BY <2>1, <3>2, <3>5, <4>2 DEF ResetDone
    <3>. QED  BY <3>2, <3>4, <3>5
  <2>7. Partly' /\ Restarted'
    <3>1. 0 < RecordSize
      BY TransportAssumption
    <3>. QED  BY <2>6, <3>1, Zenon, ZenonT(60) DEF Partly, Restarted
  <2>8. HalfOK'
    <3>1. ~(0 > 0)
      OBVIOUS
    <3>. QED  BY <2>5, <2>6, <3>1, Zenon, ZenonT(60) DEF HalfOK
  <2>9. Replies'
    BY <2>5 DEF Replies
  <2>10. Unwritten'
    <3>1. ASSUME NEW p \in Pdus, life'[p] = "unused" PROVE life[p] = "unused"
      BY <2>3, <3>1 DEF Freed
    <3>2. \A p \in Pdus : num_done'[p] \in {0, num_done[p]}
      BY <2>1 DEF ResetDone
    <3>. QED  BY <3>1, <3>2 DEF SInv, Unwritten
  <2>. QED  BY <2>2, <2>7, <2>8, <2>9, <2>10, Zenon, ZenonT(60) DEF SInv
<1>. QED  BY <1>2, <1>3

\* Every step keeps it, when rpc_timeout_scan finds nothing and nothing is cancelled.
LEMMA NextSInv ==
    ASSUME MaxExpiries = 0, Cancellable = {}, IInv, SInv, [Next]_vars
    PROVE  SInv'
<1>1. ASSUME NEW X \in SUBSET Elems(outqueue), NEW Y \in SUBSET waitpdu,
             rpc_timeout_scan(X, Y)
      PROVE  FALSE
  <2> DEFINE D == {p \in X \cup Y : ~Retried(p)} \cup {p \in Y : Retried(p)}
  <2>1. D # {} /\ expiries + Cardinality(D) <= 0
    BY <1>1 DEF rpc_timeout_scan
  <2>2. D \in SUBSET Pdus
    BY Outqueue DEF IInv, TypeOK, TypeQueues
  <2> HIDE DEF D
  <2>3. IsFiniteSet(D) /\ Cardinality(D) \in Nat
    BY <2>2, PduSets
  <2>4. Cardinality(D) # 0
    BY <2>1, <2>3, FS_EmptySet
  <2>. QED  BY <2>1, <2>3, <2>4 DEF IInv, TypeOK
<1>2. ASSUME NEW p \in Pdus, rpc_cancel_pdu(p) PROVE FALSE
  BY <1>2 DEF rpc_cancel_pdu
<1>3. CASE UNCHANGED vars
  <2>1. /\ UNCHANGED <<outqueue, num_done, halfsent, server>>
        /\ UNCHANGED <<life, fd, is_connected, failed, pc>>
    BY <1>3 DEF vars, queues, wire, app, conn
  <2>2. SameUnused /\ FdOK'
    BY <2>1, Zenon, ZenonT(60) DEF SInv, SameUnused, FdOK
  <2>. QED  BY <2>1, <2>2, StreamSame, Zenon, ZenonT(60)
<1>. QED
  BY <1>1, <1>2, <1>3, ConnectStream, DisconnectStream, OtherStream, QueueStream,
     ServiceWriteStream, MarkerStream, NoMemoryStream, RequeueStream, Zenon, ZenonT(60)
  DEF Next, Read

\* The records of a connection are whole: whatever the socket accepts, however often it
\* breaks and is reconnected, as long as no timeout and no cancellation takes a command
\* off outqueue (the half_sent run shows what happens then).
THEOREM StreamAlwaysIntact ==
    ASSUME MaxExpiries = 0, Cancellable = {}
    PROVE  Spec => []StreamIntact
<1>1. Init => IInv /\ SInv
  BY InitIInv, InitSInv
<1>2. IInv /\ SInv /\ [Next]_vars => IInv' /\ SInv'
  BY NextIInv, NextSInv
<1>3. IInv /\ SInv => StreamIntact
  BY Zenon, ZenonT(60) DEF SInv, Partly, HalfOK, StreamIntact
<1>. QED  BY <1>1, <1>2, <1>3, PTL DEF Spec

=============================================================================
