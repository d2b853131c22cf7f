-------------------------- MODULE NfsStreamProofs --------------------------
(***************************************************************************)
(* What the threads of NfsThreads send and are answered, for any number of *)
(* threads, calls, hangups, timeouts and partial writes: no byte goes out  *)
(* twice on a connection, and a call gets the reply to its own RPC.        *)
(***************************************************************************)
EXTENDS NfsThreadsProofs

\* A leaf that names no prover is tried with these in turn: the short limits first, then
\* the longer ones, which only a busy machine needs.
USE SMT, Zenon, SMTT(60), ZenonT(60), SMTT(180)

-----------------------------------------------------------------------------
(* The inductive invariant, on top of IInv.                                *)

\* A connection that is being given up or made has carried nothing yet.
ConnOK ==
    /\ conn \in {"closed", "connecting"} => stream = <<>>
    /\ spc = "requeue" => conn = "closed"

\* A connection carries no call of the future, no call that is not queued yet, and of
\* the queued ones only what writev() has accepted.
OldCalls == \A e \in Range(stream) : e.call[2] <= made[e.call[1]]
EarlyUnsent == \A t \in Early : \A e \in Range(stream) : e.call # Call(t)
RestUnsent ==
    \A i \in 1..Len(outqueue), p \in 1..Size :
        Size * (i - 1) + p > num_done + Pending => Piece(outqueue[i], p) \notin Range(stream)
StreamOK == OldCalls /\ EarlyUnsent /\ RestUnsent /\ SentOnce

\* An xid names one call, in the queues, on the connection and in the replies.
XidsPast ==
    /\ \A t \in Threads : pxid[t] < xid
    /\ \A e \in Range(stream) : e.xid < xid
    /\ \A r \in Range(replies) : r.xid < xid
XidsName ==
    /\ \A t, u \in Allocated : pxid[t] = pxid[u] => t = u
    /\ \A t \in Allocated : \A e \in Range(stream) : e.xid = pxid[t] => e.call = Call(t)
    /\ \A t \in Allocated : \A r \in Range(replies) : r.xid = pxid[t] => r.of = Call(t)
XidOK == XidsPast /\ XidsName /\ OwnAnswer

SInv == IInv /\ ConnOK /\ StreamOK /\ XidOK

\* Nothing has been called, sent or answered.
LEMMA InitSInv == Init => SInv
<1> SUFFICES ASSUME Init PROVE SInv
  OBVIOUS
<1>1. IInv
  BY InitIInv
<1>2. stream = <<>> /\ replies = <<>> /\ outqueue = <<>> /\ Range(<<>>) = {} /\ Len(<<>>) = 0
  BY DEF Init, Range
<1>3. ConnOK
  BY DEF Init, ConnOK
<1>4. StreamOK
  BY <1>2 DEF StreamOK, OldCalls, EarlyUnsent, RestUnsent, SentOnce
<1>5. XidsPast /\ XidsName
  BY <1>2 DEF Init, XidsPast, XidsName, Allocated
<1>6. OwnAnswer
  BY DEF Init, OwnAnswer
<1>. QED  BY <1>1, <1>3, <1>4, <1>5, <1>6 DEF SInv, XidOK

-----------------------------------------------------------------------------
(* The connection.                                                         *)

\* Only rpc_reconnect_requeue gives a connection up, and it drops what it carried.
LEMMA ConnStep == ASSUME SInv, [Next]_vars PROVE ConnOK'
<1>1. ConnOK
  BY DEF SInv
<1>2. ASSUME UNCHANGED <<conn, stream>>, spc' # "requeue" \/ UNCHANGED spc PROVE ConnOK'
  BY <1>1, <1>2 DEF ConnOK
<1>3. ASSUME NEW a \in Actors, writev(a) PROVE ConnOK'
  <2>1. UNCHANGED conn /\ (conn \in {"up", "closing"} \/ UNCHANGED stream)
    BY <1>3, Zenon, ZenonT(60) DEF writev
  <2>2. UNCHANGED spc \/ spc' # "requeue"
    BY <1>3 DEF writev, GotoW, AfterWrite
  <2>. QED  BY <1>1, <2>1, <2>2 DEF ConnOK
<1>4. ASSUME NEW a \in Actors, account(a) PROVE ConnOK'
  BY <1>2, <1>4 DEF account, GotoW, AfterWrite, connVars
<1>5. ASSUME NEW t \in Threads, App(t) PROVE ConnOK'
  <2>1. CASE writev(t) \/ account(t)
    BY <1>3, <1>4, <2>1 DEF Actors
  <2>2. CASE ~(writev(t) \/ account(t))
    <3>1. UNCHANGED <<conn, stream, spc>>
      BY <1>5, <2>2, Zenon, ZenonT(60)
      DEF App, nfs_init_cb_data, add_thread_context, lock_open_call, rpc_allocate_pdu,
          rpc_queue_pdu, read_head, wait_for_nfs_reply, connVars
    <3>. QED  BY <1>2, <3>1
  <2>. QED  BY <2>1, <2>2
<1>6. CASE rpc_read_from_socket
  <2>1. UNCHANGED <<conn, stream>> /\ (UNCHANGED spc \/ spc' = "reply")
    BY <1>6, ReadEffect DEF rpc_read_from_socket, SInv
  <2>. QED  BY <1>2, <2>1
<1>7. CASE \/ rpc_process_reply \/ rpc_which_events \/ rpc_timeout_scan \/ purge_outqueue
           \/ purge_unlock \/ purge_waitpdu \/ purge_end \/ purge_callback
           \/ nfs_mt_service_thread_start \/ nfs_mt_service_thread_stop
  <2>1. UNCHANGED <<conn, stream>>
    BY <1>7, Zenon, ZenonT(60)
    DEF rpc_process_reply, rpc_which_events, rpc_timeout_scan, purge_outqueue, purge_unlock,
        purge_waitpdu, purge_end, purge_callback, nfs_mt_service_thread_start,
        nfs_mt_service_thread_stop, connVars
  <2>2. UNCHANGED spc \/ spc' # "requeue"
    BY <1>7
    DEF rpc_process_reply, rpc_which_events, rpc_timeout_scan, purge_outqueue, purge_unlock,
        purge_waitpdu, purge_end, purge_callback, nfs_mt_service_thread_start,
        nfs_mt_service_thread_stop, GotoS
  <2>. QED  BY <1>2, <2>1, <2>2
<1>8. CASE rpc_reconnect_requeue \/ requeue_waitpdu \/ reconnect_cb
  BY <1>1, <1>8 DEF rpc_reconnect_requeue, requeue_waitpdu, reconnect_cb, GotoS, ConnOK
<1>9. CASE Server \/ Hangup
  BY <1>1, <1>9 DEF Server, Hangup, ConnOK
<1>10. CASE UNCHANGED vars
  BY <1>2, <1>10 DEF vars, connVars
<1>11. CASE Service
  BY <1>3, <1>4, <1>6, <1>7, <1>8, <1>11, Zenon, ZenonT(60) DEF Service, Actors
<1>. QED  BY <1>5, <1>9, <1>10, <1>11 DEF Next

-----------------------------------------------------------------------------
(* What goes out.                                                          *)

\* Every piece on the connection belongs to a call of some thread.
LEMMA SentCalls ==
    ASSUME IInv
    PROVE  \A e \in Range(stream) : e \in Bytes /\ e.call[1] \in Threads /\ e.call[2] \in Nat
<1> SUFFICES ASSUME NEW e \in Range(stream)
             PROVE  e \in Bytes /\ e.call[1] \in Threads /\ e.call[2] \in Nat
  OBVIOUS
<1>1. e \in Bytes
  BY DEF IInv, TypeConn, Range
<1>2. e.call \in Calls
  BY <1>1 DEF Bytes
<1>. QED  BY <1>1, <1>2, ThreadsAssumption DEF Calls

\* Steps that drop what the connection carried.
LEMMA NothingSent == ASSUME stream' = <<>> PROVE StreamOK'
<1>1. Range(stream') = {} /\ Len(stream') = 0
  BY DEF Range
<1>. QED  BY <1>1 DEF StreamOK, OldCalls, EarlyUnsent, RestUnsent, SentOnce

\* Steps that send nothing and leave outqueue and the calls alone.
LEMMA SendsNothing ==
    ASSUME StreamOK, UNCHANGED <<made, pxid, outqueue, num_done, stream>>, Pending' = Pending,
           Early' \subseteq Early
    PROVE  StreamOK'
<1>1. \A t, p : Piece(t, p)' = Piece(t, p) /\ Call(t)' = Call(t)
  BY DEF Piece, Call
<1>. QED  BY <1>1 DEF StreamOK, OldCalls, EarlyUnsent, RestUnsent, SentOnce

\* nfs_init_cb_data begins a call that no connection has seen.
LEMMA InitCallStream ==
    ASSUME SInv, NEW t \in Threads, nfs_init_cb_data(t) PROVE StreamOK'
<1>1. /\ UNCHANGED <<pxid, outqueue, num_done, stream, rpc_mutex, written>>
      /\ made' = [made EXCEPT ![t] = @ + 1] /\ made \in [Threads -> Nat] /\ pc[t] = "idle"
      /\ pc' = [pc EXCEPT ![t] = IF find_thread_context(t) THEN AfterInit(t) ELSE "context"]
  BY ThreadsAssumption DEF nfs_init_cb_data, Goto, queueVars, connVars, SInv, IInv, TypeThreads
<1>2. IInv /\ StreamOK /\ stream \in Seq(Bytes)
  BY DEF SInv, IInv, TypeConn
<1>3. Pending' = Pending
  BY <1>1 DEF Pending
<1>4. \A e \in Range(stream) : e.call[1] \in Threads /\ e.call[2] \in Nat
  BY <1>2, SentCalls
<1>5. \A u \in Threads : made[u] <= made'[u]
  BY <1>1
<1>6. OldCalls'
  BY <1>1, <1>2, <1>4, <1>5 DEF OldCalls, StreamOK
<1>7. EarlyUnsent'
  <2> SUFFICES ASSUME NEW u \in Early', NEW e \in Range(stream) PROVE e.call # Call(u)'
    BY <1>1 DEF EarlyUnsent
  <2>1. CASE u = t
    <3>1. e.call[2] <= made[e.call[1]]
      BY <1>2 DEF StreamOK, OldCalls
    <3>2. e.call[1] = t => e.call[2] # made'[t]
      BY <1>1, <1>4, <3>1
    <3>. QED  BY <2>1, <3>2 DEF Call
  <2>2. CASE u # t
    <3>1. u \in Early /\ Call(u)' = Call(u)
      BY <1>1, <2>2 DEF Early, Call, SInv, IInv, TypeThreads
    <3>. QED  BY <1>2, <3>1 DEF StreamOK, EarlyUnsent
  <2>. QED  BY <2>1, <2>2
<1>8. RestUnsent'
  <2>1. \A i \in 1..Len(outqueue) : outqueue[i] \in Threads /\ outqueue[i] # t
    BY <1>1, <1>2, QueuedCalls, Zenon, ZenonT(60) DEF Flying
  <2>2. \A i \in 1..Len(outqueue), p \in 1..Size :
           Piece(outqueue[i], p)' = Piece(outqueue[i], p)
    BY <1>1, <2>1 DEF Piece, Call
  <2>. QED  BY <1>1, <1>2, <1>3, <2>2 DEF StreamOK, RestUnsent
<1>. QED  BY <1>1, <1>2, <1>6, <1>7, <1>8 DEF StreamOK, SentOnce

\* rpc_allocate_pdu gives an xid to a PDU that is not queued yet.
LEMMA AllocateStream ==
    ASSUME SInv, NEW t \in Threads, rpc_allocate_pdu(t) PROVE StreamOK'
<1>1. /\ UNCHANGED <<made, outqueue, num_done, stream, rpc_mutex, written>>
      /\ pxid' = [pxid EXCEPT ![t] = xid] /\ pc[t] = "allocate"
      /\ pc' = [pc EXCEPT ![t] = "queue"] /\ pxid \in [Threads -> Nat]
      /\ pc \in [Threads -> {"idle", "context", "open", "allocate", "queue", "head", "write",
                             "account", "wait"}]
  BY DEF rpc_allocate_pdu, Goto, Locked, queueVars, connVars, SInv, IInv, TypeThreads
<1>2. IInv /\ StreamOK
  BY DEF SInv
<1>3. Pending' = Pending
  BY <1>1 DEF Pending
<1>4. Early' \subseteq Early /\ \A u : Call(u)' = Call(u)
  BY <1>1 DEF Early, Call
<1>5. RestUnsent'
  <2>1. \A i \in 1..Len(outqueue) : outqueue[i] \in Threads /\ outqueue[i] # t
    BY <1>1, <1>2, QueuedCalls DEF Flying
  <2>2. \A i \in 1..Len(outqueue), p \in 1..Size :
           Piece(outqueue[i], p)' = Piece(outqueue[i], p)
    BY <1>1, <2>1 DEF Piece, Call
  <2>. QED  BY <1>1, <1>2, <1>3, <2>2 DEF StreamOK, RestUnsent
<1>. QED  BY <1>1, <1>2, <1>4, <1>5 DEF StreamOK, OldCalls, EarlyUnsent, SentOnce

\* rpc_queue_pdu: the new PDU has no piece on the connection.
LEMMA QueueStream ==
    ASSUME SInv, NEW t \in Threads, rpc_queue_pdu(t) PROVE StreamOK'
<1>1. /\ UNCHANGED <<made, pxid, num_done, stream, rpc_mutex, written>>
      /\ outqueue' = Append(outqueue, t) /\ pc[t] = "queue" /\ pc' = [pc EXCEPT ![t] = "head"]
  BY DEF rpc_queue_pdu, Goto, Locked, connVars
<1>2. IInv /\ StreamOK
  BY DEF SInv
<1>3. Pending' = Pending
  BY <1>1 DEF Pending
<1>4. \A u, p : Piece(u, p)' = Piece(u, p) /\ Call(u)' = Call(u)
  BY <1>1 DEF Piece, Call
<1>5. Early' \subseteq Early /\ t \in Early
  BY <1>1 DEF Early, SInv, IInv, TypeThreads
<1>6. RestUnsent'
  <2> SUFFICES ASSUME NEW i \in 1..Len(outqueue'), NEW p \in 1..Size,
                      Size * (i - 1) + p > num_done + Pending
               PROVE  Piece(outqueue'[i], p) \notin Range(stream)
    BY <1>1, <1>3, <1>4 DEF RestUnsent
  <2>1. outqueue \in Seq(Threads) /\ Len(outqueue') = Len(outqueue) + 1 /\ Len(outqueue) \in Nat
    BY <1>1, <1>2, QueuedCalls
  <2>2. CASE i \in 1..Len(outqueue)
    <3>1. outqueue'[i] = outqueue[i]
      BY <1>1, <2>1, <2>2
    <3>. QED  BY <1>2, <2>2, <3>1 DEF StreamOK, RestUnsent
  <2>3. CASE i = Len(outqueue) + 1
    <3>1. outqueue'[i] = t
      BY <1>1, <2>1, <2>3
    <3>2. Piece(t, p).call = Call(t)
      BY DEF Piece
    <3>. QED  BY <1>2, <1>5, <3>1, <3>2 DEF StreamOK, EarlyUnsent
  <2>. QED  BY <2>1, <2>2, <2>3
<1>. QED  BY <1>1, <1>2, <1>4, <1>5, <1>6 DEF StreamOK, OldCalls, EarlyUnsent, SentOnce

\* account: the PDUs that are completely written leave, the others move up as many places.
LEMMA AccountStream ==
    ASSUME SInv, NEW a \in Actors, account(a) PROVE StreamOK'
<1> DEFINE w == written[a]
           k == Completed(w)
<1>1. /\ UNCHANGED <<made, pxid, stream>> /\ At(a, "account")
      /\ outqueue' = SubSeq(outqueue, k + 1, Len(outqueue))
      /\ num_done' = Remaining(w) /\ rpc_mutex' = Unlocked(rpc_mutex, a)
      /\ GotoW(a, AfterWrite(a))
  BY DEF account, connVars
<1>2. IInv /\ StreamOK
  BY DEF SInv
<1>3. /\ rpc_mutex = a /\ Pending = w /\ w \in Nat /\ k \in 0..Len(outqueue)
      /\ num_done + w = Size * k + Remaining(w) /\ Remaining(w) \in 0..1
  BY <1>1, <1>2, TheWriter
<1>4. Pending' = 0
  BY <1>1, <1>3 DEF Pending, Unlocked
<1>5. \A u, p : Piece(u, p)' = Piece(u, p) /\ Call(u)' = Call(u)
  BY <1>1 DEF Piece, Call
<1>6. Early' \subseteq Early
  BY <1>1 DEF Early, GotoW, AfterWrite, Goto, SInv, IInv, TypeThreads
<1> HIDE DEF k, w
<1>7. RestUnsent'
  <2> SUFFICES ASSUME NEW i \in 1..Len(outqueue'), NEW p \in 1..Size,
                      Size * (i - 1) + p > Remaining(w)
               PROVE  Piece(outqueue'[i], p) \notin Range(stream)
    BY <1>1, <1>3, <1>4, <1>5 DEF RestUnsent
  <2>1. outqueue \in Seq(Threads) /\ Len(outqueue) \in Nat
    BY <1>2, QueuedCalls
  <2>2. i + k \in 1..Len(outqueue) /\ outqueue'[i] = outqueue[i + k] /\ i \in Nat /\ k \in Nat
    BY <1>1, <1>3, <2>1
  <2>3. Size * ((i + k) - 1) + p > num_done + Pending
    BY <1>3, <2>2 DEF Size
  <2>. QED  BY <1>2, <2>2, <2>3 DEF StreamOK, RestUnsent
<1>. QED  BY <1>1, <1>2, <1>5, <1>6, <1>7
     DEF StreamOK, OldCalls, EarlyUnsent, SentOnce

\* rpc_find_pdu and rpc_timeout_scan take a PDU out of outqueue: those behind it move up.
LEMMA TakenStream ==
    ASSUME SInv, NEW t \in Threads, Taken(t), rpc_mutex = Free,
           UNCHANGED <<made, pxid, stream, pc, written>>, rpc_mutex' \in {Free, Svc}
    PROVE  StreamOK'
<1>1. IInv /\ StreamOK
  BY DEF SInv
<1>2. Pending = 0 /\ Pending' = 0
  BY <1>1, NoWriter DEF Pending, Actors
<1>3. \A u, p : Piece(u, p)' = Piece(u, p) /\ Call(u)' = Call(u)
  BY DEF Piece, Call
<1>4. Early' = Early
  BY DEF Early
<1>5. outqueue \in Seq(Threads) /\ Len(outqueue) \in Nat /\ num_done \in 0..1
  BY <1>1, QueuedCalls
<1>6. RestUnsent'
  <2> SUFFICES ASSUME NEW i \in 1..Len(outqueue'), NEW p \in 1..Size,
                      Size * (i - 1) + p > num_done'
               PROVE  Piece(outqueue'[i], p) \notin Range(stream)
    BY <1>2, <1>3 DEF RestUnsent, Taken, TypeQueues
  <2>1. CASE t \notin Range(outqueue)
    <3>1. outqueue' = outqueue
      BY <1>1, <2>1, TheQueues, RemoveAbsent, Zenon, ZenonT(60) DEF Taken
    <3>2. num_done' = num_done
      BY <1>5, <2>1 DEF Taken, Range
    <3>. QED  BY <1>1, <1>2, <1>5, <3>1, <3>2 DEF StreamOK, RestUnsent
  <2>2. CASE t \in Range(outqueue)
    <3>1. PICK m \in 1..Len(outqueue) : outqueue[m] = t
      BY <1>5, <2>2 DEF Range
    <3>2. outqueue' = Unlinked(outqueue, m)
      BY <1>1, <3>1, TheQueues, RemoveIsUnlink, Zenon, ZenonT(60) DEF Taken
    <3>3. /\ Len(outqueue') = Len(outqueue) - 1
          /\ \A j \in 1..(Len(outqueue) - 1) :
                outqueue'[j] = IF j < m THEN outqueue[j] ELSE outqueue[j + 1]
      BY <1>5, <3>2, UnlinkEffect, Zenon, ZenonT(60)
    <3>4. CASE i < m
      <4>1. i \in 1..Len(outqueue) /\ outqueue'[i] = outqueue[i]
        BY <1>5, <3>3, <3>4
      <4>2. Head(outqueue) # t
        BY <1>1, <1>5, <3>1, <3>4, QueuedCalls
      <4>3. num_done' = num_done
        BY <4>2 DEF Taken
      <4>. QED  BY <1>1, <1>2, <1>5, <4>1, <4>3 DEF StreamOK, RestUnsent
    <3>5. CASE ~(i < m)
      <4>1. i + 1 \in 1..Len(outqueue) /\ outqueue'[i] = outqueue[i + 1]
        BY <1>5, <3>3, <3>5
      <4>2. Size * ((i + 1) - 1) + p > num_done + 0
        BY <1>5 DEF Size
      <4>. QED  BY <1>1, <1>2, <4>1, <4>2 DEF StreamOK, RestUnsent
    <3>. QED  BY <3>4, <3>5
  <2>. QED  BY <2>1, <2>2
<1>. QED  BY <1>1, <1>3, <1>4, <1>6 DEF StreamOK, OldCalls, EarlyUnsent, SentOnce

\* What is on the connection was there before, or comes from a queued PDU.
LEMMA SentPieces ==
    ASSUME IInv, NEW n \in Nat, Sends(n), NEW e \in Range(stream'), e \notin Range(stream)
    PROVE  \E t \in Flying : e.call = Call(t) /\ e.xid = pxid[t]
<1>1. PICK k \in 1..n : e = stream'[Len(stream) + k]
  BY Zenon, ZenonT(60) DEF Sends
<1>2. PICK i \in 1..Len(outqueue), p \in 1..Size : e = Piece(outqueue[i], p)
  BY <1>1, Zenon, ZenonT(60) DEF Sends
<1>3. outqueue[i] \in Flying
  BY QueuedCalls
<1>. QED  BY <1>2, <1>3 DEF Piece

\* writev() sends pieces that are not on the connection, each of them once.
LEMMA WritevStream ==
    ASSUME SInv, NEW a \in Actors, writev(a) PROVE StreamOK'
<1>1. /\ UNCHANGED <<made, pxid, outqueue, num_done>>
      /\ \E l \in {"account", AfterWrite(a)} : GotoW(a, l)
  BY DEF writev, queueVars
<1>2. IInv /\ StreamOK /\ stream \in Seq(Bytes) /\ Len(stream) \in Nat
  BY DEF SInv, IInv, TypeConn
<1>3. \A u, p : Piece(u, p)' = Piece(u, p) /\ Call(u)' = Call(u)
  BY <1>1 DEF Piece, Call
<1>4. Early' \subseteq Early
  BY <1>1 DEF Early, GotoW, AfterWrite, Goto, SInv, IInv, TypeThreads
<1>5. Pending = 0
  BY <1>2, NoWriter DEF writev
<1>6. PICK n \in Nat : Sends(n)
  BY <1>2, WritevEffect
<1>7. outqueue \in Seq(Threads) /\ Len(outqueue) \in Nat /\ num_done \in 0..1
  BY <1>2, QueuedCalls
<1>8. \A i, j \in 1..Len(outqueue), p, q \in 1..Size :
         Piece(outqueue[i], p) = Piece(outqueue[j], q) => i = j /\ p = q
  BY <1>2, QueuedCalls, PiecesDiffer
<1> DEFINE W(k) == stream'[Len(stream) + k]
<1>9. ASSUME NEW k \in 1..n
      PROVE  \E i \in 1..Len(outqueue), p \in 1..Size :
                Size * (i - 1) + p = num_done + k /\ W(k) = Piece(outqueue[i], p)
  BY <1>6, Zenon, ZenonT(60) DEF Sends
<1>10. \A e \in Range(stream') : e \in Range(stream) \/ \E k \in 1..n : e = W(k)
  BY <1>6, Zenon, ZenonT(60) DEF Sends
<1>11. /\ Pending' = n /\ Len(stream') = Len(stream) + n
       /\ \A k \in 1..Len(stream) : stream'[k] = stream[k]
  BY <1>6 DEF Sends
<1> HIDE DEF W
<1>12. \A k \in 1..n : W(k) \notin Range(stream)
  <2> SUFFICES ASSUME NEW k \in 1..n PROVE W(k) \notin Range(stream)
    OBVIOUS
  <2>1. PICK i \in 1..Len(outqueue), p \in 1..Size :
           Size * (i - 1) + p = num_done + k /\ W(k) = Piece(outqueue[i], p)
    BY <1>9, Zenon, ZenonT(60)
  <2>2. Size * (i - 1) + p > num_done + Pending
    BY <1>5, <1>7, <2>1
  <2>. QED  BY <1>2, <2>1, <2>2 DEF StreamOK, RestUnsent
<1>13. \A k, m \in 1..n : W(k) = W(m) => k = m
  <2> SUFFICES ASSUME NEW k \in 1..n, NEW m \in 1..n, W(k) = W(m) PROVE k = m
    OBVIOUS
  <2>1. PICK i \in 1..Len(outqueue), p \in 1..Size :
           Size * (i - 1) + p = num_done + k /\ W(k) = Piece(outqueue[i], p)
    BY <1>9
  <2>2. PICK j \in 1..Len(outqueue), q \in 1..Size :
           Size * (j - 1) + q = num_done + m /\ W(m) = Piece(outqueue[j], q)
    BY <1>9
  <2>3. i = j /\ p = q
    BY <1>8, <2>1, <2>2, Zenon, ZenonT(60)
  <2>4. num_done + k = num_done + m
    BY <2>1, <2>2, <2>3
  <2>. QED  BY <1>7, <2>4
<1>14. SentOnce'
  <2> SUFFICES ASSUME NEW i \in 1..(Len(stream) + n), NEW j \in 1..(Len(stream) + n),
                      stream'[i] = stream'[j]
               PROVE  i = j
    BY <1>11 DEF SentOnce
  <2> DEFINE Old(x) == x \in 1..Len(stream) /\ stream'[x] = stream[x]
             New(x) == x - Len(stream) \in 1..n /\ stream'[x] = W(x - Len(stream))
  <2>1. ASSUME NEW x \in 1..(Len(stream) + n) PROVE Old(x) \/ New(x)
    <3>1. CASE x <= Len(stream)
      BY <1>2, <1>11, <3>1
    <3>2. CASE ~(x <= Len(stream))
      <4>1. x - Len(stream) \in 1..n /\ Len(stream) + (x - Len(stream)) = x
        BY <1>2, <3>2
      <4>. QED  BY <4>1 DEF W
    <3>. QED  BY <3>1, <3>2
  <2>2. CASE Old(i) /\ Old(j)
    BY <1>2, <2>2, Zenon, ZenonT(60) DEF StreamOK, SentOnce
  <2>3. CASE New(i) /\ New(j)
    <3>1. i - Len(stream) = j - Len(stream)
      BY <1>13, <2>3, Zenon, ZenonT(60)
    <3>. QED  BY <1>2, <3>1
  <2>4. CASE (Old(i) /\ New(j)) \/ (New(i) /\ Old(j))
    <3>1. ASSUME NEW x, Old(x) PROVE stream'[x] \in Range(stream)
      BY <1>2, <3>1 DEF Range
    <3>. QED  BY <1>12, <2>4, <3>1
  <2>. QED  BY <2>1, <2>2, <2>3, <2>4
<1>15. RestUnsent'
  <2> SUFFICES ASSUME NEW i \in 1..Len(outqueue), NEW p \in 1..Size,
                      Size * (i - 1) + p > num_done + n
               PROVE  Piece(outqueue[i], p) \notin Range(stream')
    BY <1>1, <1>3, <1>11 DEF RestUnsent
  <2>1. Piece(outqueue[i], p) \notin Range(stream)
    <3>1. Size * (i - 1) + p > num_done + Pending
      BY <1>5, <1>7 DEF Size
    <3>. QED  BY <1>2, <3>1 DEF StreamOK, RestUnsent
  <2>2. ASSUME NEW k \in 1..n, W(k) = Piece(outqueue[i], p) PROVE FALSE
    <3>1. PICK j \in 1..Len(outqueue), q \in 1..Size :
             Size * (j - 1) + q = num_done + k /\ W(k) = Piece(outqueue[j], q)
      BY <1>9
    <3>2. i = j /\ p = q
      BY <1>8, <2>2, <3>1, Zenon, ZenonT(60)
    <3>3. num_done + k > num_done + n
      BY <3>1, <3>2
    <3>. QED  BY <1>7, <3>3
  <2>. QED  BY <1>10, <2>1, <2>2
<1>16. \A e \in Range(stream') : e \in Range(stream) \/ \E t \in Flying : e.call = Call(t)
  BY <1>2, <1>6, SentPieces
<1>17. OldCalls'
  <2>1. \A t \in Flying : made[t] \in Nat /\ Call(t)[1] = t /\ Call(t)[2] = made[t]
    BY <1>2, ThreadsAssumption DEF Flying, IInv, TypeThreads, Call
  <2>. QED  BY <1>1, <1>2, <1>16, <2>1 DEF StreamOK, OldCalls
<1>18. EarlyUnsent'
  <2> SUFFICES ASSUME NEW u \in Early, NEW e \in Range(stream'), e.call = Call(u) PROVE FALSE
    BY <1>3, <1>4 DEF EarlyUnsent
  <2>1. PICK t \in Flying : Call(t) = Call(u)
    BY <1>2, <1>16 DEF StreamOK, EarlyUnsent
  <2>. QED  BY <1>2, <2>1, QueuedCalls DEF Call
<1>. QED  BY <1>14, <1>15, <1>17, <1>18 DEF StreamOK

\* The server takes the first two pieces off the connection.
LEMMA ServerStream == ASSUME SInv, Server PROVE StreamOK' /\ Range(stream') \subseteq Range(stream)
<1>1. /\ UNCHANGED <<made, pxid, outqueue, num_done, rpc_mutex, written, pc>>
      /\ Len(stream) >= 2 /\ stream' = SubSeq(stream, 3, Len(stream))
  BY DEF Server, Size, appVars, queueVars
<1>2. StreamOK /\ stream \in Seq(Bytes) /\ Len(stream) \in Nat
  BY DEF SInv, IInv, TypeConn
<1>3. /\ stream' \in Seq(Bytes) /\ Len(stream') = Len(stream) - 2
      /\ \A k \in 1..(Len(stream) - 2) : stream'[k] = stream[k + 2]
  <2>1. 3 \in 1..(Len(stream) + 1) /\ (Len(stream) - 3) + 1 = Len(stream) - 2
    BY <1>1, <1>2
  <2>2. stream' \in Seq(Bytes)
    BY <1>1, <1>2, <2>1
  <2>3. Len(stream') = Len(stream) - 2
    BY <1>1, <1>2, <2>1
  <2>4. \A k \in 1..(Len(stream) - 2) : stream'[k] = stream[k + 2]
    BY <1>1, <1>2, <2>1
  <2>. QED  BY <2>2, <2>3, <2>4
<1>4. Range(stream') \subseteq Range(stream)
  <2> SUFFICES ASSUME NEW e \in Range(stream') PROVE e \in Range(stream)
    OBVIOUS
  <2>1. PICK k \in 1..(Len(stream) - 2) : e = stream'[k]
    BY <1>3 DEF Range
  <2>2. k + 2 \in 1..Len(stream) /\ e = stream[k + 2]
    BY <1>2, <1>3, <2>1
  <2>. QED  BY <1>2, <2>2 DEF Range
<1>5. SentOnce'
  <2> SUFFICES ASSUME NEW i \in 1..(Len(stream) - 2), NEW j \in 1..(Len(stream) - 2),
                      stream'[i] = stream'[j]
               PROVE  i = j
    BY <1>3 DEF SentOnce
  <2>1. i + 2 \in 1..Len(stream) /\ j + 2 \in 1..Len(stream) /\ stream[i + 2] = stream[j + 2]
    BY <1>2, <1>3
  <2>2. i + 2 = j + 2
    BY <1>2, <2>1 DEF StreamOK, SentOnce
  <2>. QED  BY <2>2
<1>6. \A u, p : Piece(u, p)' = Piece(u, p) /\ Call(u)' = Call(u)
  BY <1>1 DEF Piece, Call
<1>7. Pending' = Pending /\ Early' = Early
  BY <1>1 DEF Pending, Early
<1>8. OldCalls' /\ EarlyUnsent' /\ RestUnsent'
  BY <1>1, <1>2, <1>4, <1>6, <1>7 DEF StreamOK, OldCalls, EarlyUnsent, RestUnsent
<1>. QED  BY <1>4, <1>5, <1>8 DEF StreamOK

\* The steps of a thread between its calls to the queues.
LEMMA CallStream ==
    ASSUME SInv, NEW t \in Threads,
           add_thread_context(t) \/ lock_open_call(t) \/ read_head(t) \/ wait_for_nfs_reply(t)
    PROVE  StreamOK'
<1>1. UNCHANGED <<made, pxid, outqueue, num_done, stream, rpc_mutex, written>>
  BY Zenon, ZenonT(60)
       DEF add_thread_context, lock_open_call, read_head, wait_for_nfs_reply, Locked,
     queueVars, connVars
<1>2. \/ pc[t] \in {"context", "open"} /\ \E l \in {"open", "allocate"} : Goto(t, l)
      \/ \E l \in {"write", "wait", "idle"} : Goto(t, l)
  BY DEF add_thread_context, lock_open_call, read_head, wait_for_nfs_reply, AfterInit
<1>3. Early' \subseteq Early
  BY <1>2 DEF Early, Goto, SInv, IInv, TypeThreads
<1>. QED  BY <1>1, <1>3, SendsNothing DEF Pending, SInv

\* The steps of the service thread that send nothing and move nothing in outqueue.
LEMMA ServiceStream ==
    ASSUME SInv,
           \/ rpc_process_reply \/ rpc_which_events \/ purge_unlock \/ purge_waitpdu
           \/ purge_end \/ purge_callback \/ nfs_mt_service_thread_start
           \/ nfs_mt_service_thread_stop \/ Hangup \/ UNCHANGED vars
    PROVE  StreamOK'
<1>1. UNCHANGED <<pc, made, pxid, outqueue, num_done, stream, written>>
  BY Zenon, ZenonT(60)
  DEF rpc_process_reply, rpc_which_events, purge_unlock, purge_waitpdu, purge_end,
      purge_callback, nfs_mt_service_thread_start, nfs_mt_service_thread_stop, Hangup, vars,
      appVars, queueVars, connVars
<1>2. Early' = Early
  BY <1>1 DEF Early
<1>3. Pending' = Pending
  <2>1. CASE UNCHANGED rpc_mutex
    BY <1>1, <2>1 DEF Pending
  <2>2. CASE rpc_mutex' # rpc_mutex
    <3>1. spc # "account" /\ rpc_mutex \in {Free, Svc} /\ rpc_mutex' = Free
      BY <2>2
      DEF rpc_process_reply, rpc_which_events, purge_unlock, purge_waitpdu, purge_end,
          purge_callback, nfs_mt_service_thread_start, nfs_mt_service_thread_stop, Hangup,
          vars, Locked, CanLock, Unlocked
    <3>2. Pending = 0
      BY <3>1, NoWriter DEF SInv
    <3>. QED  BY <3>1, <3>2 DEF Pending
  <2>. QED  BY <2>1, <2>2
<1>. QED  BY <1>1, <1>2, <1>3, SendsNothing DEF SInv

\* rpc_find_pdu and rpc_timeout_scan.
LEMMA TakeStream == ASSUME SInv, rpc_read_from_socket \/ rpc_timeout_scan PROVE StreamOK'
<1>1. /\ UNCHANGED <<made, pxid, stream, pc, written>>
      /\ rpc_mutex = Free /\ rpc_mutex' \in {Free, Svc}
  BY Zenon, ZenonT(60) DEF rpc_read_from_socket, rpc_timeout_scan, Locked, connVars
<1>2. CASE \E t \in Threads : Taken(t)
  BY <1>1, <1>2, TakenStream
<1>3. CASE UNCHANGED <<outqueue, num_done>> /\ UNCHANGED rpc_mutex
  BY <1>1, <1>3, SendsNothing DEF Pending, Early, SInv
<1>4. CASE rpc_read_from_socket
  <2>1. UNCHANGED <<outqueue, num_done>> \/ \E t \in Threads : Taken(t)
    BY <1>4, ReadEffect, Zenon, ZenonT(60) DEF SInv
  <2>2. UNCHANGED rpc_mutex
    BY <1>4, Zenon, ZenonT(60) DEF rpc_read_from_socket, Locked
  <2>. QED  BY <1>2, <1>3, <2>1, <2>2
<1>5. CASE rpc_timeout_scan
  BY <1>2, <1>5, ScanEffect DEF SInv
<1>. QED  BY <1>4, <1>5

\* A reconnect starts with an empty connection, a purge leaves an empty queue.
LEMMA ReconnectStream ==
    ASSUME SInv, rpc_reconnect_requeue \/ requeue_waitpdu \/ reconnect_cb \/ purge_outqueue
    PROVE  StreamOK'
<1>1. CASE rpc_reconnect_requeue \/ requeue_waitpdu \/ reconnect_cb
  <2>1. stream' = <<>>
    BY <1>1
         DEF rpc_reconnect_requeue, requeue_waitpdu, reconnect_cb, SInv, ConnOK
  <2>. QED  BY <2>1, NothingSent
<1>2. CASE purge_outqueue
  <2>1. UNCHANGED <<made, pc, stream>> /\ outqueue' = <<>> /\ Len(<<>>) = 0
    BY <1>2 DEF purge_outqueue, connVars
  <2>2. Early' = Early /\ \A u : Call(u)' = Call(u)
    BY <2>1 DEF Early, Call
  <2>3. StreamOK /\ RestUnsent'
    BY <2>1 DEF SInv, RestUnsent
  <2>. QED  BY <2>1, <2>2, <2>3 DEF StreamOK, OldCalls, EarlyUnsent, SentOnce
<1>. QED  BY <1>1, <1>2

\* Every step of Next.
LEMMA StreamStep == ASSUME SInv, [Next]_vars PROVE StreamOK'
<1>1. ASSUME NEW t \in Threads, App(t) PROVE StreamOK'
  BY <1>1, InitCallStream, AllocateStream, QueueStream, CallStream, WritevStream, AccountStream,
     Zenon, ZenonT(60) DEF App, Actors
<1>2. CASE Service
  BY <1>2, WritevStream, AccountStream, ServiceStream, TakeStream, ReconnectStream, Zenon, ZenonT(60)
  DEF Service, Actors
<1>. QED  BY <1>1, <1>2, ServerStream, ServiceStream DEF Next

-----------------------------------------------------------------------------
(* What is answered.                                                       *)

\* Steps that allocate no xid and send nothing new.
LEMMA XidsKept ==
    ASSUME SInv, UNCHANGED <<xid, pxid, made>>, Allocated' \subseteq Allocated,
           Range(stream') \subseteq Range(stream), Range(replies') \subseteq Range(replies),
           \A t \in Threads : got'[t] \in {got[t], NoStatus, Failed}
    PROVE  XidOK'
<1>1. \A u : Call(u)' = Call(u)
  BY DEF Call
<1>2. XidsPast' /\ XidsName'
  BY <1>1 DEF SInv, XidOK, XidsPast, XidsName
<1>3. OwnAnswer'
  BY <1>1, Zenon, ZenonT(60) DEF SInv, XidOK, OwnAnswer
<1>. QED  BY <1>2, <1>3 DEF XidOK

\* nfs_init_cb_data: the status of the last call does not outlive it.
LEMMA InitCallXid == ASSUME SInv, NEW t \in Threads, nfs_init_cb_data(t) PROVE XidOK'
<1>1. /\ UNCHANGED <<xid, pxid, stream, replies>> /\ pc[t] = "idle"
      /\ made' = [made EXCEPT ![t] = @ + 1] /\ got' = [got EXCEPT ![t] = NoStatus]
      /\ \E l \in {"context", "open", "allocate"} : pc' = [pc EXCEPT ![t] = l]
  BY Zenon, ZenonT(60) DEF nfs_init_cb_data, Goto, AfterInit, connVars
<1>2. TypeThreads
  BY DEF SInv, IInv
<1>3. Allocated' \subseteq Allocated /\ t \notin Allocated
  BY <1>1, <1>2 DEF Allocated, TypeThreads
<1>4. \A u \in Threads : u # t => Call(u)' = Call(u) /\ got'[u] = got[u]
  BY <1>1, <1>2 DEF Call, TypeThreads
<1>5. got'[t] = NoStatus
  BY <1>1, <1>2 DEF TypeThreads
<1>6. XidsPast'
  BY <1>1 DEF SInv, XidOK, XidsPast
<1>7. XidsName'
  <2>1. \A u \in Allocated' : u \in Allocated /\ Call(u)' = Call(u)
    BY <1>3, <1>4 DEF Allocated
  <2>. QED  BY <1>1, <2>1 DEF SInv, XidOK, XidsName
<1>8. OwnAnswer'
  BY <1>4, <1>5 DEF SInv, XidOK, OwnAnswer
<1>. QED  BY <1>6, <1>7, <1>8 DEF XidOK

\* rpc_allocate_pdu: no PDU, piece or reply has the new xid.
LEMMA AllocateXid == ASSUME SInv, NEW t \in Threads, rpc_allocate_pdu(t) PROVE XidOK'
<1>1. /\ UNCHANGED <<made, got, stream, replies>> /\ xid' = xid + 1
      /\ pxid' = [pxid EXCEPT ![t] = xid] /\ pc' = [pc EXCEPT ![t] = "queue"]
  BY DEF rpc_allocate_pdu, next_xid, Goto, connVars
<1>2. TypeThreads /\ stream \in Seq(Bytes) /\ replies \in Seq(Replies)
  BY DEF SInv, IInv, TypeConn
<1>3. \A u : Call(u)' = Call(u)
  BY <1>1 DEF Call
<1>4. /\ xid \in Nat /\ \A u \in Threads : pxid[u] \in Nat
      /\ \A e \in Range(stream) : e.xid \in Nat
      /\ \A r \in Range(replies) : r.xid \in Nat
  <2>1. xid \in Nat /\ \A u \in Threads : pxid[u] \in Nat
    BY <1>2 DEF TypeThreads
  <2>2. ASSUME NEW e \in Range(stream) PROVE e.xid \in Nat
    <3>1. e \in Bytes
      BY SentCalls DEF SInv
    <3>. QED  BY <3>1 DEF Bytes
  <2>3. ASSUME NEW r \in Range(replies) PROVE r.xid \in Nat
    <3>1. r \in Replies
      BY <1>2 DEF Range
    <3>. QED  BY <3>1 DEF Replies
  <2>. QED  BY <2>1, <2>2, <2>3
<1>5. \A u \in Allocated' : u = t \/ (u \in Allocated /\ pxid'[u] = pxid[u])
  BY <1>1, <1>2 DEF Allocated, TypeThreads
<1>6. pxid'[t] = xid
  BY <1>1, <1>2 DEF TypeThreads
<1>7. XidsPast /\ XidsName
  BY DEF SInv, XidOK
<1>8. XidsPast'
  BY <1>1, <1>2, <1>4, <1>7 DEF XidsPast, TypeThreads
<1>9. XidsName'
  <2>1. Allocated \subseteq Threads
    BY DEF Allocated
  <2>2. ASSUME NEW u \in Allocated', NEW v \in Allocated', pxid'[u] = pxid'[v] PROVE u = v
    BY <1>4, <1>5, <1>6, <1>7, <2>1, <2>2 DEF XidsPast, XidsName
  <2>3. ASSUME NEW u \in Allocated', NEW e \in Range(stream), e.xid = pxid'[u]
        PROVE  e.call = Call(u)
    BY <1>4, <1>5, <1>6, <1>7, <2>3 DEF XidsPast, XidsName
  <2>4. ASSUME NEW u \in Allocated', NEW r \in Range(replies), r.xid = pxid'[u]
        PROVE  r.of = Call(u)
    BY <1>4, <1>5, <1>6, <1>7, <2>4 DEF XidsPast, XidsName
  <2>. QED  BY <1>1, <1>3, <2>2, <2>3, <2>4 DEF XidsName
<1>10. OwnAnswer'
  BY <1>1, <1>3 DEF SInv, XidOK, OwnAnswer
<1>. QED  BY <1>8, <1>9, <1>10 DEF XidOK

\* writev() sends the xids of allocated PDUs.
LEMMA WritevXid == ASSUME SInv, NEW a \in Actors, writev(a) PROVE XidOK'
<1>1. /\ UNCHANGED <<xid, pxid, made, got, replies>>
      /\ \E l \in {"account", AfterWrite(a)} : GotoW(a, l)
  BY DEF writev
<1>2. Allocated' \subseteq Allocated
  BY <1>1 DEF writev, At, Allocated, GotoW, AfterWrite, Goto, SInv, IInv, TypeThreads, Actors
<1>3. \A u : Call(u)' = Call(u)
  BY <1>1 DEF Call
<1>4. XidsPast /\ XidsName /\ OwnAnswer /\ IInv
  BY DEF SInv, XidOK
<1>5. \A e \in Range(stream') :
         e \in Range(stream) \/ \E t \in Allocated : e.call = Call(t) /\ e.xid = pxid[t]
  <2>1. PICK n \in Nat : Sends(n)
    BY <1>4, WritevEffect
  <2>. QED  BY <1>4, <2>1, SentPieces, QueuedCalls, Zenon, ZenonT(60)
<1>6. XidsPast'
  BY <1>1, <1>4, <1>5, Zenon, ZenonT(60) DEF XidsPast, Allocated
<1>7. XidsName'
  <2>1. ASSUME NEW u \in Allocated, NEW e \in Range(stream'), e.xid = pxid[u]
        PROVE  e.call = Call(u)
    BY <1>4, <1>5, <2>1 DEF XidsName
  <2>. QED  BY <1>1, <1>2, <1>3, <1>4, <2>1, Zenon, ZenonT(60) DEF XidsName
<1>. QED  BY <1>1, <1>3, <1>4, <1>6, <1>7 DEF XidOK, OwnAnswer

\* The server answers with the xid it has read.
LEMMA ServerXid == ASSUME SInv, Server PROVE XidOK'
<1>1. /\ UNCHANGED <<xid, pxid, made, got, pc>>
      /\ replies' = Append(replies, [xid |-> stream[1].xid, of |-> stream[1].call])
      /\ Len(stream) >= 2
  BY DEF Server, appVars, Size
<1>2. Range(stream') \subseteq Range(stream)
  BY ServerStream
<1>3. stream[1] \in Range(stream) /\ replies \in Seq(Replies) /\ Len(replies) \in Nat
  BY <1>1 DEF SInv, IInv, TypeConn, Range
<1>4. \A u : Call(u)' = Call(u)
  BY <1>1 DEF Call
<1>5. Allocated' = Allocated
  BY <1>1 DEF Allocated
<1>6. \A r \in Range(replies') :
         r \in Range(replies) \/ (r.xid = stream[1].xid /\ r.of = stream[1].call)
  <2> SUFFICES ASSUME NEW r \in Range(replies')
               PROVE  r \in Range(replies) \/ (r.xid = stream[1].xid /\ r.of = stream[1].call)
    OBVIOUS
  <2>1. PICK k \in 1..(Len(replies) + 1) : r = replies'[k]
    BY <1>1, <1>3 DEF Range
  <2>2. CASE k = Len(replies) + 1
    BY <1>1, <1>3, <2>1, <2>2
  <2>3. CASE k \in 1..Len(replies)
    BY <1>1, <1>3, <2>1, <2>3 DEF Range
  <2>. QED  BY <1>3, <2>2, <2>3
<1>7. XidsPast /\ XidsName /\ OwnAnswer
  BY DEF SInv, XidOK
<1>8. XidsPast'
  BY <1>1, <1>2, <1>3, <1>6, <1>7 DEF XidsPast
<1>9. XidsName'
  BY <1>1, <1>2, <1>3, <1>4, <1>5, <1>6, <1>7 DEF XidsName
<1>. QED  BY <1>1, <1>4, <1>7, <1>8, <1>9 DEF XidOK, OwnAnswer

\* rpc_find_pdu gives a reply to the call its xid names, and to no other.
LEMMA ReadXid == ASSUME SInv, rpc_read_from_socket PROVE XidOK'
<1>1. /\ UNCHANGED <<xid, pxid, made, pc, stream>>
      /\ replies # <<>> /\ replies' = Tail(replies)
  BY Zenon, ZenonT(60) DEF rpc_read_from_socket
<1>2. replies \in Seq(Replies) /\ Len(replies) \in Nat
  BY DEF SInv, IInv, TypeConn
<1>3. Head(replies) \in Range(replies) /\ Range(replies') \subseteq Range(replies)
  <2>1. Head(replies) \in Range(replies)
    BY <1>1, <1>2 DEF Range
  <2>2. ASSUME NEW r \in Range(replies') PROVE r \in Range(replies)
    <3>1. PICK k \in 1..(Len(replies) - 1) : r = replies'[k]
      BY <1>1, <1>2, <2>2 DEF Range
    <3>2. k + 1 \in 1..Len(replies) /\ r = replies[k + 1]
      BY <1>1, <1>2, <3>1
    <3>. QED  BY <1>2, <3>2 DEF Range
  <2>. QED  BY <2>1, <2>2
<1>4. Allocated' = Allocated /\ \A u : Call(u)' = Call(u)
  BY <1>1 DEF Allocated, Call
<1>5. CASE UNCHANGED got
  BY <1>1, <1>3, <1>4, <1>5, XidsKept
<1>6. CASE \E t \in Threads :
             Taken(t) /\ pxid[t] = Head(replies).xid /\ got' = [got EXCEPT ![t] = Head(replies).of]
  <2>1. PICK t \in Threads :
             Taken(t) /\ pxid[t] = Head(replies).xid /\ got' = [got EXCEPT ![t] = Head(replies).of]
    BY <1>6, Zenon, ZenonT(60)
  <2>2. t \in Allocated
    <3>1. Range(outqueue) \cup waitpdu \subseteq Flying
      BY DEF SInv, IInv, Placed
    <3>. QED  BY <2>1, <3>1, QueuedCalls DEF SInv, Taken
  <2>3. Head(replies).of = Call(t)
    BY <1>3, <2>1, <2>2 DEF SInv, XidOK, XidsName
  <2>4. \A u \in Threads : got'[u] = IF u = t THEN Call(t) ELSE got[u]
    BY <2>1, <2>3 DEF SInv, IInv, TypeThreads
  <2>5. OwnAnswer'
    BY <1>4, <2>4 DEF SInv, XidOK, OwnAnswer
  <2>6. XidsPast' /\ XidsName'
    BY <1>1, <1>3, <1>4 DEF SInv, XidOK, XidsPast, XidsName
  <2>. QED  BY <2>5, <2>6 DEF XidOK
<1>. QED  BY <1>5, <1>6, ReadEffect, Zenon, ZenonT(60) DEF SInv

\* The other steps.
LEMMA XidStep == ASSUME SInv, [Next]_vars PROVE XidOK'
<1>1. IInv /\ TypeThreads
  BY DEF SInv, IInv
<1>2. ASSUME NEW t \in Threads,
             \/ add_thread_context(t) \/ lock_open_call(t) \/ rpc_queue_pdu(t) \/ read_head(t)
             \/ wait_for_nfs_reply(t)
      PROVE  XidOK'
  <2>1. UNCHANGED <<xid, pxid, made, got, stream, replies>>
    BY <1>2, Zenon, ZenonT(60) DEF add_thread_context, lock_open_call, rpc_queue_pdu, read_head,
       wait_for_nfs_reply, connVars
  <2>2. \/ \E l \in {"open", "allocate", "idle"} : Goto(t, l)
        \/ pc[t] \in {"queue", "head"} /\ \E l \in {"head", "write", "wait"} : Goto(t, l)
    BY <1>2 DEF add_thread_context, lock_open_call, rpc_queue_pdu, read_head,
       wait_for_nfs_reply, AfterInit
  <2>3. Allocated' \subseteq Allocated
    BY <1>1, <2>2 DEF Allocated, Goto, TypeThreads
  <2>. QED  BY <2>1, <2>3, XidsKept
<1>3. ASSUME NEW a \in Actors, account(a) PROVE XidOK'
  <2>1. UNCHANGED <<xid, pxid, made, got, stream, replies>> /\ GotoW(a, AfterWrite(a))
    BY <1>3 DEF account, connVars
  <2>2. Allocated' \subseteq Allocated
    BY <1>1, <1>3, <2>1, Zenon, ZenonT(60)
         DEF account, At, Allocated, GotoW, AfterWrite, Goto, TypeThreads, Actors
  <2>. QED  BY <2>1, <2>2, XidsKept
<1>4. CASE \/ rpc_process_reply \/ rpc_which_events \/ rpc_timeout_scan
           \/ rpc_reconnect_requeue \/ requeue_waitpdu \/ reconnect_cb
           \/ purge_outqueue \/ purge_callback \/ purge_unlock \/ purge_waitpdu \/ purge_end
           \/ nfs_mt_service_thread_start \/ nfs_mt_service_thread_stop
           \/ Hangup \/ UNCHANGED vars
  <2>1. UNCHANGED <<xid, pxid, made, pc>>
    BY <1>4, Zenon, ZenonT(60)
    DEF rpc_process_reply, rpc_which_events, rpc_timeout_scan, rpc_reconnect_requeue,
        requeue_waitpdu, reconnect_cb, purge_outqueue, purge_callback, purge_unlock,
        purge_waitpdu, purge_end, nfs_mt_service_thread_start, nfs_mt_service_thread_stop,
        Hangup, vars, appVars
  <2>2. stream' \in {stream, <<>>} /\ replies' \in {replies, <<>>}
    BY <1>4, Zenon, ZenonT(60)
    DEF rpc_process_reply, rpc_which_events, rpc_timeout_scan, rpc_reconnect_requeue,
        requeue_waitpdu, reconnect_cb, purge_outqueue, purge_callback, purge_unlock,
        purge_waitpdu, purge_end, nfs_mt_service_thread_start, nfs_mt_service_thread_stop,
        Hangup, vars, connVars
  <2>3. Range(stream') \subseteq Range(stream) /\ Range(replies') \subseteq Range(replies)
    <3>1. Range(<<>>) = {}
      BY DEF Range
    <3>. QED  BY <2>2, <3>1, Zenon, ZenonT(60)
  <2>4. \A t \in Threads : got'[t] \in {got[t], NoStatus, Failed}
    <3>1. CASE rpc_timeout_scan
      BY <1>1, <3>1 DEF rpc_timeout_scan, TypeThreads
    <3>2. CASE purge_outqueue \/ purge_waitpdu
      BY <3>2 DEF purge_outqueue, purge_waitpdu
    <3>3. CASE ~(rpc_timeout_scan \/ purge_outqueue \/ purge_waitpdu)
      <4>1. UNCHANGED got
        BY <1>4, <3>3, Zenon, ZenonT(60)
        DEF rpc_process_reply, rpc_which_events, rpc_reconnect_requeue, requeue_waitpdu,
            reconnect_cb, purge_callback, purge_unlock, purge_end,
            nfs_mt_service_thread_start, nfs_mt_service_thread_stop, Hangup, vars, appVars
      <4>. QED  BY <4>1
    <3>. QED  BY <3>1, <3>2, <3>3
  <2>5. Allocated' = Allocated
    BY <2>1 DEF Allocated
  <2>. QED  BY <2>1, <2>3, <2>4, <2>5, XidsKept, Zenon, ZenonT(60)
<1>5. ASSUME NEW t \in Threads, App(t) PROVE XidOK'
  BY <1>2, <1>3, <1>5, InitCallXid, AllocateXid, WritevXid, Zenon, ZenonT(60) DEF App, Actors
<1>6. CASE Service
  BY <1>3, <1>4, <1>6, WritevXid, ReadXid, Zenon, ZenonT(60) DEF Service, Actors
<1>. QED  BY <1>4, <1>5, <1>6, ServerXid DEF Next

-----------------------------------------------------------------------------
\* Every step keeps the invariant.
LEMMA NextSInv == SInv /\ [Next]_vars => SInv'
BY NextIInv, ConnStep, StreamStep, XidStep DEF SInv

\* SInv holds in every state the threads, the service thread and the server can reach.
LEMMA StreamInvariant == Spec => []SInv
BY InitSInv, NextSInv, PTL DEF Spec

\* rpc_write_to_socket, called by the thread that queued a PDU and by the service thread,
\* never sends a byte twice on one connection, whatever part of the queue a writev() takes
\* and although rpc_reconnect_requeue resets num_done without the mutex.
THEOREM NeverSentTwice == Spec => []SentOnce
<1>1. SInv => SentOnce
  BY DEF SInv, StreamOK
<1>. QED  BY <1>1, StreamInvariant, PTL

\* rpc_find_pdu: a synchronous call returns the answer to its own RPC or an error, never
\* that of another thread nor of an earlier call that timed out.
THEOREM AlwaysOwnAnswer == Spec => []OwnAnswer
<1>1. SInv => OwnAnswer
  BY DEF SInv, XidOK
<1>. QED  BY <1>1, StreamInvariant, PTL

=============================================================================
