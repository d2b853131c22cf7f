------------------------- MODULE RpcTransportProofs -------------------------
(***************************************************************************)
(* Theorems about RpcTransport for any number of commands, any limit, any  *)
(* number of faults and timeouts: the invariants of the queues, then what  *)
(* the application sees.  A callback runs once, the transport implements   *)
(* RpcCommands, and rpc_disconnect leaves no command behind.  The first    *)
(* two hold unless a zero-copy READ is denied, the last one unless the     *)
(* connection is ended while a reply is half read; MCRpcReadDenied.cfg is  *)
(* a counterexample without the first hypothesis.                          *)
(***************************************************************************)
EXTENDS RpcQueueProofs

\* A leaf that names no prover is tried with these in turn: the short limits first, then
\* the longer ones, which only a busy machine needs.
USE SMT, Zenon, SMTT(60), ZenonT(60), SMTT(180)

\* A read error and a reply with an unknown xid lose no PDU.
LEMMA ReadFailsStep == ASSUME IInv, ReadFails \/ ReadUnknown PROVE IInv'
<1> USE DEF IInv
<1>1. TypeQueues' /\ TypeApp' /\ TypeWire'
  BY DEF ReadFails, ReadUnknown, TypeOK, TypeQueues, TypeApp, TypeWire, queues, app, wire
<1>2. TypeConn' /\ faults' \in Nat /\ expiries' \in Nat
  BY DEF ReadFails, ReadUnknown, SocketFault, Fault, TypeOK, TypeConn, conn
<1>3. TypeFlags'
  BY Zenon, ZenonT(60) DEF ReadFails, ReadUnknown, TypeOK, TypeFlags, conn
<1>4. TypeReader' /\ ReaderOK'
  <2>1. \A p \in Pdus : HashXid[p] \in Nat
    BY TransportAssumption
  <2>. QED  BY <2>1 DEF ReadFails, ReadUnknown, TypeOK, TypeReader, ReaderOK, InputState
<1>5. OnePlace' /\ CountOK'
  BY DEF ReadFails, ReadUnknown, OnePlace, Elems, CountOK, queues, app
<1>. QED  BY <1>1, <1>2, <1>3, <1>4, <1>5 DEF TypeOK

\* rpc_process_pdu: whatever the reply says, the PDU in rpc->pdu is finished or kept.
LEMMA ReadPayloadStep == ASSUME IInv, NEW kind, ReadPayload(kind) PROVE IInv'
<1>1. /\ TypeConn /\ TypeWire /\ TypeQueues /\ TypeReader /\ TypeApp
      /\ OnePlace /\ ReaderOK /\ CountOK
      /\ faults \in Nat /\ expiries \in Nat
  BY DEF IInv, TypeOK
<1>2. /\ pdu # NULL /\ state = "READ_PAYLOAD"
      /\ UNCHANGED <<queues, rm_hash, asked>>
      /\ UNCHANGED <<fd, connect_cb, auto_reconnect, retrans, num_retries>>
      /\ UNCHANGED <<halfsent, server, expiries>>
      /\ faults' \in {faults, faults + 1}
      /\ pc' \in {pc, "requeue"}
  BY DEF ReadPayload, rpc_finished_pdu, Fault, conn, wire
<1>3. TypeFlags'
  BY Zenon, ZenonT(60) DEF ReadPayload, conn, IInv, TypeOK, TypeFlags
<1>4. TypeConn' /\ TypeWire' /\ faults' \in Nat /\ expiries' \in Nat
  BY <1>1, <1>2 DEF TypeConn, TypeWire
<1>5. \/ \E status \in Status : rpc_finished_pdu(status)
      \/ /\ UNCHANGED <<pdu, life>>
         /\ state' \in {"READ_PAYLOAD", "READ_IOVEC"}
         /\ cbs' \in {cbs, Called({pdu}, "ERROR")}
  BY <1>2 DEF ReadPayload, Status
<1>6. TypeQueues' /\ TypeReader' /\ TypeApp' /\ OnePlace' /\ ReaderOK' /\ CountOK'
  <2>1. CASE \E status \in Status : rpc_finished_pdu(status)
    BY <1>2, <2>1, FinishedEffect
  <2>2. CASE /\ UNCHANGED <<pdu, life>>
             /\ state' \in {"READ_PAYLOAD", "READ_IOVEC"}
             /\ cbs' \in {cbs, Called({pdu}, "ERROR")}
    <3>1. TypeQueues' /\ TypeReader' /\ OnePlace' /\ ReaderOK' /\ CountOK'
      BY <1>1, <1>2, <2>2
      DEF TypeQueues, TypeReader, OnePlace, Elems, ReaderOK, CountOK, InputState, queues
    <3>2. "ERROR" \in Status
      BY DEF Status
    <3>3. TypeApp'
      BY <1>1, <1>2, <2>2, <3>2, CompletionType DEF TypeApp
    <3>. QED  BY <3>1, <3>3
  <2>. QED  BY <1>5, <2>1, <2>2
<1>. QED  BY <1>3, <1>4, <1>6 DEF IInv, TypeOK

\* The end of a zero-copy read finishes the PDU in rpc->pdu.
LEMMA ReadDataStep == ASSUME IInv, ReadData PROVE IInv'
<1>1. /\ TypeConn /\ TypeWire /\ TypeQueues /\ TypeReader /\ TypeApp
      /\ OnePlace /\ ReaderOK /\ CountOK
      /\ faults \in Nat /\ expiries \in Nat
  BY DEF IInv, TypeOK
<1>2. /\ pdu # NULL
      /\ UNCHANGED <<queues, rm_hash, asked>>
      /\ UNCHANGED <<fd, connect_cb, auto_reconnect, retrans, num_retries, pc>>
      /\ UNCHANGED <<halfsent, server, faults, expiries>>
  BY <1>1 DEF ReadData, rpc_finished_pdu, conn, wire, ReaderOK
<1>3. TypeFlags'
  BY Zenon, ZenonT(60) DEF ReadData, conn, IInv, TypeOK, TypeFlags
<1>4. TypeConn' /\ TypeWire' /\ faults' \in Nat /\ expiries' \in Nat
  BY <1>1, <1>2 DEF TypeConn, TypeWire
<1>5. TypeQueues' /\ TypeReader' /\ TypeApp' /\ OnePlace' /\ ReaderOK' /\ CountOK'
  <2>1. CASE rpc_finished_pdu("SUCCESS")
    <3>1. "SUCCESS" \in Status
      BY DEF Status
    <3>. QED  BY <1>2, <2>1, <3>1, FinishedEffect
  <2>2. CASE state' = "READ_PADDING" /\ UNCHANGED <<pdu, life, cbs>>
    BY <1>1, <1>2, <2>2
    DEF TypeQueues, TypeReader, TypeApp, OnePlace, Elems, ReaderOK, CountOK, InputState,
        queues
  <2>. QED  BY <2>1, <2>2 DEF ReadData
<1>. QED  BY <1>3, <1>4, <1>5 DEF IInv, TypeOK

\* rpc_timeout_scan gives up or requeues each of the expired PDUs and keeps the others.
LEMMA TimeoutStep ==
    ASSUME IInv, NEW X \in SUBSET Elems(outqueue), NEW Y \in SUBSET waitpdu,
           rpc_timeout_scan(X, Y)
    PROVE  IInv'
<1> DEFINE given_up == {p \in X \cup Y : ~Retried(p)}
           resent   == {p \in Y : Retried(p)}
<1>1. /\ TypeConn /\ TypeWire /\ TypeQueues /\ TypeReader /\ TypeApp
      /\ OnePlace /\ ReaderOK /\ CountOK
      /\ faults \in Nat /\ expiries \in Nat
  BY DEF IInv, TypeOK
<1>2. given_up \in SUBSET Pdus /\ resent \in SUBSET Pdus /\ Y \in SUBSET Pdus
  BY <1>1, Outqueue DEF TypeQueues
<1>3. /\ expiries' = expiries + Cardinality(given_up \cup resent)
      /\ num_done' = ResetDone(resent)
      /\ waitpdu' = waitpdu \ Y
      /\ waitpdu_len' = waitpdu_len - Cardinality(Y)
      /\ cbs' = Called(given_up, "TIMEOUT")
      /\ life' = Freed(given_up)
      /\ pc' \in {pc, "requeue"}
      /\ UNCHANGED <<pdu, state, rm_hash, fd, connect_cb, auto_reconnect, retrans,
                     num_retries, asked, halfsent, server, faults>>
  BY DEF rpc_timeout_scan, reader, conn, wire
<1>4. PICK q \in rpc_remove_pdu_from_queue(outqueue, given_up) :
            outqueue' \in ReturnAll(q, resent)
  BY Zenon, ZenonT(60) DEF rpc_timeout_scan
<1>5. IsQueue(q, Elems(outqueue) \ given_up)
  BY Outqueue, RemoveQueue
<1>6. /\ resent \cap Elems(outqueue) = {} /\ resent \cap given_up = {}
      /\ Y = resent \cup (given_up \cap Y)
      /\ given_up \subseteq Elems(outqueue) \cup Y
      /\ Y \cap Elems(outqueue) = {}
  BY <1>1 DEF OnePlace
<1>7. TypeFlags'
  BY Zenon, ZenonT(60) DEF rpc_timeout_scan, conn, IInv, TypeOK, TypeFlags
<1> HIDE DEF given_up, resent
<1>8. /\ outqueue' \in Seq(Pdus)
      /\ \A i, j \in DOMAIN outqueue' : outqueue'[i] = outqueue'[j] => i = j
      /\ Elems(outqueue') = (Elems(outqueue) \ given_up) \cup resent
  <2>1. Cardinality(resent) \in Nat
    BY <1>2, PduSets
  <2>2. IsQueue(outqueue', (Elems(outqueue) \ given_up) \cup resent)
    BY <1>2, <1>4, <1>5, <1>6, <2>1, ReturnAllQueue
  <2>. QED  BY <2>2 DEF IsQueue
<1>9. TypeQueues' /\ CountOK'
  <2>1. Cardinality(waitpdu \ Y) = Cardinality(waitpdu) - Cardinality(Y)
    BY <1>1, DiffSize, Zenon, ZenonT(60) DEF TypeQueues
  <2>2. /\ Cardinality(waitpdu) \in Nat /\ Cardinality(Y) \in Nat
        /\ Cardinality(waitpdu \ Y) \in Nat
    <3>1. waitpdu \in SUBSET Pdus /\ waitpdu \ Y \in SUBSET Pdus
      BY <1>1 DEF TypeQueues
    <3>. QED  BY <1>2, <3>1, PduSets
  <2>3. waitpdu_len' \in Nat /\ CountOK'
    BY <1>1, <1>3, <2>1, <2>2, TransportAssumption DEF TypeQueues, CountOK
  <2>4. num_done' \in [Pdus -> 0..RecordSize]
    BY <1>1, <1>3, TransportAssumption DEF ResetDone, TypeQueues
  <2>5. waitpdu' \subseteq Pdus
    BY <1>1, <1>3 DEF TypeQueues
  <2>. QED  BY <1>8, <2>3, <2>4, <2>5 DEF TypeQueues
<1>10. TypeApp'
  <2>1. "TIMEOUT" \in Status
    BY DEF Status
  <2>. QED  BY <1>1, <1>3, <2>1, CompletionType DEF TypeApp
<1>11. TypeReader' /\ ReaderOK' /\ TypeConn' /\ TypeWire' /\ faults' \in Nat
  BY <1>1, <1>3 DEF TypeReader, ReaderOK, TypeConn, TypeWire
<1>12. expiries' \in Nat
  <2>1. Cardinality(given_up \cup resent) \in Nat
    BY <1>2, PduSets
  <2>. QED  BY <1>1, <1>3, <2>1
<1>13. OnePlace'
  <2>1. /\ Elems(outqueue') \cap waitpdu' = {}
        /\ Elems(outqueue') \cup waitpdu' = (Elems(outqueue) \cup waitpdu) \ given_up
        /\ given_up \in SUBSET (Elems(outqueue) \cup waitpdu)
    BY <1>1, <1>3, <1>6, <1>8 DEF OnePlace
  <2>2. pdu' = pdu /\ life' = Freed(given_up)
    BY <1>3
  <2>. QED  BY <1>1, <1>8, <2>1, <2>2, OnePlaceLess, Zenon, ZenonT(60)
<1>. QED  BY <1>7, <1>9, <1>10, <1>11, <1>12, <1>13 DEF IInv, TypeOK

\* rpc_cancel_pdu takes a PDU off the queue it is in, or finds none.
LEMMA CancelStep == ASSUME IInv, NEW p \in Pdus, rpc_cancel_pdu(p) PROVE IInv'
<1>1. /\ TypeReader' /\ ReaderOK' /\ TypeConn' /\ TypeWire'
      /\ faults' \in Nat /\ expiries' \in Nat
  BY DEF rpc_cancel_pdu, reader, conn, wire, IInv, TypeOK, TypeReader, ReaderOK,
         TypeConn, TypeWire
<1>2. TypeFlags'
  BY Zenon, ZenonT(60) DEF rpc_cancel_pdu, conn, IInv, TypeOK, TypeFlags
<1>3. /\ pdu' = pdu /\ num_done' = num_done /\ cbs' = cbs
      /\ asked' \subseteq Pdus
  BY DEF rpc_cancel_pdu, reader, IInv, TypeOK, TypeApp
<1>4. CASE Findable(p, rm_hash)
  <2>1. rpc_find_pdu(p, rm_hash) /\ life' = Freed({p})
    BY <1>4, Zenon, ZenonT(60) DEF rpc_cancel_pdu
  <2>2. /\ TypeQueues' /\ CountOK'
        /\ \A i, j \in DOMAIN outqueue' : outqueue'[i] = outqueue'[j] => i = j
        /\ Elems(outqueue') \cap waitpdu' = {}
        /\ p \in Elems(outqueue) \cup waitpdu
        /\ Elems(outqueue') \cup waitpdu' = (Elems(outqueue) \cup waitpdu) \ {p}
    BY <1>3, <2>1, FindEffect
  <2>3. OnePlace'
    <3>1. OnePlace /\ {p} \in SUBSET (Elems(outqueue) \cup waitpdu)
      BY <2>2, Zenon, ZenonT(60) DEF IInv
    <3>. QED  BY <1>3, <2>1, <2>2, <3>1, OnePlaceLess, Zenon, ZenonT(60)
  <2>4. TypeApp'
    <3>1. TypeApp
      BY Zenon, ZenonT(60) DEF IInv, TypeOK
    <3>. QED  BY <1>3, <2>1, <3>1 DEF TypeApp, Freed
  <2>. QED  BY <1>1, <1>2, <2>2, <2>3, <2>4, Zenon, ZenonT(60) DEF IInv, TypeOK
<1>5. CASE ~Findable(p, rm_hash)
  <2>1. UNCHANGED <<outqueue, waitpdu, waitpdu_len, life>>
    BY <1>5, Zenon, ZenonT(60) DEF rpc_cancel_pdu
  <2>2. TypeQueues' /\ CountOK' /\ OnePlace' /\ TypeApp'
    BY <1>3, <2>1 DEF IInv, TypeOK, TypeQueues, CountOK, OnePlace, Elems, TypeApp
  <2>. QED  BY <1>1, <1>2, <2>2 DEF IInv, TypeOK
<1>. QED  BY <1>4, <1>5

\* rpc_disconnect preserves the invariant, and so does the purge it makes.
LEMMA DisconnectStepInv == ASSUME IInv, rpc_disconnect PROVE IInv'
<1>1. /\ TypeReader' /\ ReaderOK' /\ TypeConn' /\ TypeWire'
      /\ faults' \in Nat /\ expiries' \in Nat
  BY DEF rpc_disconnect, FreshWire, reader, IInv, TypeOK, TypeReader, ReaderOK, TypeConn,
         TypeWire
<1>2. TypeFlags'
  BY Zenon, ZenonT(60) DEF rpc_disconnect, IInv, TypeOK, TypeFlags
<1>3. UNCHANGED <<num_done, waitpdu_len, pdu, asked>>
  BY DEF rpc_disconnect, reader
<1>4. TypeQueues' /\ TypeApp' /\ OnePlace' /\ CountOK'
  <2>1. CASE rpc_purge_all_pdus(outqueue, waitpdu, "ERROR")
    <3>1. "ERROR" \in Status
      BY DEF Status
    <3>. QED  BY <1>3, <2>1, <3>1, PurgeQueues
  <2>2. CASE UNCHANGED <<outqueue, waitpdu, cbs, life>>
    BY <1>3, <2>2
    DEF IInv, TypeOK, TypeQueues, CountOK, OnePlace, Elems, TypeApp
  <2>. QED  BY <2>1, <2>2 DEF rpc_disconnect
<1>. QED  BY <1>1, <1>2, <1>4 DEF IInv, TypeOK

\* rpc_destroy_context preserves the invariant.
LEMMA DestroyStep == ASSUME IInv, rpc_destroy_context PROVE IInv'
<1>1. /\ TypeReader' /\ ReaderOK' /\ TypeConn' /\ TypeWire'
      /\ faults' \in Nat /\ expiries' \in Nat
  BY DEF rpc_destroy_context, FreshWire, reader, IInv, TypeOK, TypeReader, ReaderOK,
         TypeConn, TypeWire
<1>2. TypeFlags'
  BY Zenon, ZenonT(60) DEF rpc_destroy_context, IInv, TypeOK, TypeFlags
<1>3. TypeQueues' /\ TypeApp' /\ OnePlace' /\ CountOK'
  <2>1. "CANCEL" \in Status
    BY DEF Status
  <2>. QED  BY <2>1, PurgeQueues DEF rpc_destroy_context, reader
<1>. QED  BY <1>1, <1>2, <1>3 DEF IInv, TypeOK

\* rpc_reconnect_requeue returns what was sent to outqueue, or purges it.
LEMMA RequeueStep == ASSUME IInv, rpc_reconnect_requeue PROVE IInv'
<1>1. /\ TypeConn /\ TypeWire /\ TypeQueues /\ TypeReader /\ TypeApp
      /\ OnePlace /\ ReaderOK /\ CountOK
      /\ faults \in Nat /\ expiries \in Nat
  BY DEF IInv, TypeOK
<1>2. TypeFlags'
  BY Zenon, ZenonT(60) DEF rpc_reconnect_requeue, IInv, TypeOK, TypeFlags
<1>3. pc' = "idle" /\ UNCHANGED <<rm_hash, auto_reconnect, retrans, asked, expiries>>
  BY DEF rpc_reconnect_requeue
<1>4. "ERROR" \in Status
  BY DEF Status
<1>5. CASE auto_reconnect = 0
  <2>1. /\ rpc_purge_all_pdus(outqueue, waitpdu, "ERROR")
        /\ UNCHANGED <<num_done, waitpdu_len, pdu, state, fd, connect_cb, num_retries,
                       halfsent, server, faults>>
    BY <1>5 DEF rpc_reconnect_requeue, wire
  <2>2. TypeQueues' /\ TypeApp' /\ OnePlace' /\ CountOK'
    BY <1>3, <1>4, <2>1, PurgeQueues
  <2>3. TypeReader' /\ ReaderOK' /\ TypeConn' /\ TypeWire' /\ faults' \in Nat
    BY <1>1, <1>3, <2>1 DEF TypeReader, ReaderOK, TypeConn, TypeWire
  <2>. QED  BY <1>1, <1>2, <1>3, <2>2, <2>3 DEF IInv, TypeOK
<1>6. CASE auto_reconnect # 0
  <2> DEFINE moved == waitpdu \cup ({pdu} \ {NULL})
  <2> DEFINE Back(q) == IF pdu = NULL THEN q ELSE rpc_return_to_outqueue(q, pdu)
  <2>1. PICK q \in ReturnAll(outqueue, waitpdu) :
          \/ /\ outqueue' = Back(q)
             /\ waitpdu' = {}
             /\ UNCHANGED <<life, cbs>>
          \/ rpc_purge_all_pdus(Back(q), {}, "ERROR")
    BY <1>6 DEF rpc_reconnect_requeue
  <2> DEFINE all == Back(q)
  <2>2. /\ state' = "READ_RM" /\ pdu' = NULL /\ waitpdu_len' = 0 /\ FreshWire
        /\ \E S : num_done' = ResetDone(S)
    BY <1>6 DEF rpc_reconnect_requeue
  <2>3. /\ fd' \in {"none", "connecting", "dead"}
        /\ connect_cb' \in {connect_cb, "reconnect"}
        /\ \/ num_retries' \in {auto_reconnect, auto_reconnect - 1}
           \/ num_retries' \in {num_retries, num_retries - 1}
        /\ faults' \in {faults, faults + 1}
    <3>1. fd' \in {"none", "connecting", "dead"}
      BY <1>6 DEF rpc_reconnect_requeue
    <3>2. connect_cb' \in {connect_cb, "reconnect"} /\ faults' \in {faults, faults + 1}
      BY <1>6 DEF rpc_reconnect_requeue, Fault
    <3>3. \/ num_retries' \in {auto_reconnect, auto_reconnect - 1}
          \/ num_retries' \in {num_retries, num_retries - 1}
      BY <1>6 DEF rpc_reconnect_requeue
    <3>. QED  BY <3>1, <3>2, <3>3
  <2>4. TypeReader' /\ ReaderOK' /\ TypeConn' /\ TypeWire' /\ faults' \in Nat
    <3>1. TypeConn' /\ faults' \in Nat
      BY <1>1, <1>3, <2>3 DEF TypeConn
    <3>2. TypeReader' /\ ReaderOK' /\ TypeWire'
      BY <1>1, <1>3, <2>2
      DEF TypeReader, ReaderOK, TypeWire, FreshWire, InputState
    <3>. QED  BY <3>1, <3>2
  <2>5. IsQueue(q, Elems(outqueue) \cup waitpdu)
    <3>1. /\ waitpdu \in SUBSET Pdus /\ waitpdu \cap Elems(outqueue) = {}
          /\ Cardinality(waitpdu) \in Nat
      BY <1>1, PduSets DEF TypeQueues, OnePlace
    <3>. QED  BY <3>1, Outqueue, ReturnAllQueue
  <2>6. IsQueue(all, Elems(outqueue) \cup moved)
    <3>1. CASE pdu = NULL
      <4>1. all = q /\ Elems(outqueue) \cup moved = Elems(outqueue) \cup waitpdu
        BY <2>1, <3>1
      <4>. QED  BY <2>5, <4>1
    <3>2. CASE pdu # NULL
      <4>1. pdu \in Pdus /\ pdu \notin Elems(outqueue) \cup waitpdu
        BY <1>1, <3>2 DEF TypeReader, OnePlace
      <4>2. IsQueue(all, (Elems(outqueue) \cup waitpdu) \cup {pdu})
        BY <2>1, <2>5, <3>2, <4>1, ReturnQueue
      <4>3. (Elems(outqueue) \cup waitpdu) \cup {pdu} = Elems(outqueue) \cup moved
        BY <3>2
      <4>. QED  BY <4>2, <4>3
    <3>. QED  BY <3>1, <3>2
  <2>7. {p \in Pdus : life[p] = "live"} = Elems(outqueue) \cup moved
    BY <1>1 DEF OnePlace
  <2> HIDE DEF moved, all
  <2>8. num_done' \in [Pdus -> 0..RecordSize]
    <3>1. PICK S : num_done' = ResetDone(S)
      BY <2>2
    <3>. QED  BY <1>1, <3>1, TransportAssumption DEF ResetDone, TypeQueues
  <2>9. /\ outqueue' \in Seq(Pdus)
        /\ \A i, j \in DOMAIN outqueue' : outqueue'[i] = outqueue'[j] => i = j
        /\ waitpdu' = {}
        /\ {p \in Pdus : life'[p] = "live"} = Elems(outqueue')
        /\ TypeApp'
    <3>1. CASE outqueue' = all /\ waitpdu' = {} /\ UNCHANGED <<life, cbs>>
      BY <1>1, <1>3, <2>6, <2>7, <3>1 DEF IsQueue, TypeApp
    <3>2. CASE rpc_purge_all_pdus(all, {}, "ERROR")
      <4>1. /\ outqueue' \in Seq(Pdus) /\ Elems(outqueue') = {}
            /\ \A i, j \in DOMAIN outqueue' : outqueue'[i] = outqueue'[j] => i = j
            /\ waitpdu' = {}
            /\ life' \in [Pdus -> {"unused", "live", "freed"}]
            /\ cbs' \in [Pdus -> Seq(Status)]
            /\ {p \in Pdus : life'[p] = "live"} =
                    {p \in Pdus : life[p] = "live"} \ (Elems(all) \cup {})
        BY <1>1, <1>4, <3>2, PurgeEffect
      <4>2. Elems(all) = {p \in Pdus : life[p] = "live"}
        BY <2>6, <2>7 DEF IsQueue
      <4>3. {p \in Pdus : life'[p] = "live"} = Elems(outqueue')
        BY <4>1, <4>2
      <4>4. TypeApp'
        BY <1>1, <1>3, <4>1 DEF TypeApp
      <4>. QED  BY <4>1, <4>3, <4>4
    <3>. QED  BY <2>1, <3>1, <3>2 DEF all
  <2>10. TypeQueues' /\ CountOK'
    BY <2>2, <2>8, <2>9, FS_EmptySet, TransportAssumption DEF TypeQueues, CountOK
  <2>11. OnePlace'
    <3>1. NULL \notin Elems(outqueue')
      BY <2>9, TransportAssumption DEF Elems
    <3>. QED  BY <2>2, <2>9, <3>1 DEF OnePlace
  <2>. QED  BY <1>1, <1>2, <1>3, <2>4, <2>9, <2>10, <2>11 DEF IInv, TypeOK
<1>. QED  BY <1>5, <1>6

\* The invariant is inductive.
LEMMA NextIInv == IInv /\ [Next]_vars => IInv'
<1> SUFFICES ASSUME IInv, [Next]_vars PROVE IInv'
  OBVIOUS
<1>1. CASE rpc_connect_async
  BY <1>1, ConnectAsyncStep
<1>2. CASE rpc_set_resiliency
  BY <1>2, ResiliencyStep
<1>3. CASE ServiceConnected
  BY <1>3, ConnectedStep
<1>4. CASE ServiceSocketError \/ ServiceConnectFailed
  BY <1>4, SocketErrorStep
<1>5. CASE \E p \in Pdus : rpc_queue_pdu(p)
  BY <1>5, QueuePduStep
<1>6. CASE ServiceWrite
  BY <1>6, WriteStep
<1>7. CASE Read
  <2>1. CASE \E p \in Pdus : ReadRecordMarker(p)
    BY <2>1, RecordMarkerStep
  <2>2. CASE ReadUnknown
    BY <2>2, ReadFailsStep
  <2>3. CASE \E kind \in ReplyKinds : ReadPayload(kind)
    BY <2>3, ReadPayloadStep
  <2>4. CASE ReadData
    BY <2>4, ReadDataStep
  <2>. QED  BY <1>7, <2>1, <2>2, <2>3, <2>4 DEF Read
<1>8. CASE \E p \in Pdus : ReadNoMemory(p)
  BY <1>8, NoMemoryStep
<1>9. CASE ReadFails
  BY <1>9, ReadFailsStep
<1>10. CASE \E X \in SUBSET Elems(outqueue), Y \in SUBSET waitpdu : rpc_timeout_scan(X, Y)
  BY <1>10, TimeoutStep
<1>11. CASE rpc_reconnect_requeue
  BY <1>11, RequeueStep
<1>12. CASE \E p \in Pdus : rpc_cancel_pdu(p)
  BY <1>12, CancelStep
<1>13. CASE rpc_disconnect
  BY <1>13, DisconnectStepInv
<1>14. CASE rpc_destroy_context
  BY <1>14, DestroyStep
<1>15. CASE UNCHANGED vars
  <2>1. /\ outqueue' = outqueue /\ num_done' = num_done
        /\ waitpdu' = waitpdu /\ waitpdu_len' = waitpdu_len
    BY <1>15 DEF vars, queues
  <2>2. pdu' = pdu /\ state' = state /\ rm_hash' = rm_hash
    BY <1>15 DEF vars, reader
  <2>3. /\ fd' = fd /\ is_connected' = is_connected /\ connect_cb' = connect_cb
        /\ auto_reconnect' = auto_reconnect /\ retrans' = retrans
        /\ num_retries' = num_retries /\ failed' = failed /\ pc' = pc
    BY <1>15 DEF vars, conn
  <2>4. life' = life /\ cbs' = cbs /\ asked' = asked
    BY <1>15 DEF vars, app
  <2>5. halfsent' = halfsent /\ server' = server
    BY <1>15 DEF vars, wire
  <2>6. faults' = faults /\ expiries' = expiries
    BY <1>15 DEF vars
  <2>7. TypeQueues' /\ TypeReader'
    BY <2>1, <2>2 DEF IInv, TypeOK, TypeQueues, TypeReader
  <2>8. TypeConn'
    BY <2>3 DEF IInv, TypeOK, TypeConn
  <2>9. TypeFlags'
    BY <2>3, Zenon, ZenonT(60) DEF IInv, TypeOK, TypeFlags
  <2>10. TypeApp' /\ TypeWire'
    BY <2>4, <2>5 DEF IInv, TypeOK, TypeApp, TypeWire
  <2>11. faults' \in Nat /\ expiries' \in Nat
    BY <2>6 DEF IInv, TypeOK
  <2>12. Elems(outqueue)' = Elems(outqueue)
    BY <2>1 DEF Elems
  <2>13. OnePlace'
    BY <2>1, <2>2, <2>4, <2>12, Zenon, ZenonT(60) DEF IInv, OnePlace
  <2>14. ReaderOK'
    BY <2>2 DEF IInv, ReaderOK
  <2>15. CountOK'
    BY <2>1 DEF IInv, CountOK
  <2>. QED
    BY <2>7, <2>8, <2>9, <2>10, <2>11, <2>13, <2>14, <2>15 DEF IInv, TypeOK
<1>. QED
  BY <1>1, <1>2, <1>3, <1>4, <1>5, <1>6, <1>7, <1>8, <1>9, <1>10, <1>11, <1>12, <1>13,
     <1>14, <1>15
  DEF Next

\* Every field keeps its C type; the unsigned waitpdu_len never wraps.
THEOREM TypeCorrect == Spec => []TypeOK
<1>1. IInv => TypeOK
  BY DEF IInv
<1>. QED  BY <1>1, InitIInv, NextIInv, PTL DEF Spec

\* rpc_queue_pdu to rpc_free_pdu: a command is always linked in exactly one place.
THEOREM OnePlaceAlways == Spec => []OnePlace
<1>1. IInv => OnePlace
  BY DEF IInv
<1>. QED  BY <1>1, InitIInv, NextIInv, PTL DEF Spec

\* waitpdu_len never falls below the number of waiting commands, and
\* rpc_write_to_socket never lets more than max_waitpdu_len of them wait.
THEOREM AwaitingCovered == Spec => []AwaitingCovers
<1>1. IInv => AwaitingCovers
  <2> SUFFICES ASSUME IInv PROVE AwaitingCovers
    OBVIOUS
  <2>1. waitpdu_len \in Nat /\ Cardinality(waitpdu) \in Nat /\ CountOK
    BY PduSets DEF IInv, TypeOK, TypeQueues
  <2>. QED  BY <2>1, TransportAssumption DEF CountOK, AwaitingCovers
<1>. QED  BY <1>1, InitIInv, NextIInv, PTL DEF Spec

-----------------------------------------------------------------------------
(* What the application sees.                                              *)

\* No server denies a READ that was issued with zero-copy buffers.
NoDeniedRead == ZeroCopy = {} \/ "rpcerr" \notin ReplyKinds

-----------------------------------------------------------------------------
(* Every step is one of five as far as life, cbs and asked are concerned.  *)

Live == {p \in Pdus : life[p] = "live"}

NoEffect == UNCHANGED <<life, cbs, asked>>
RefusedEffect == UNCHANGED <<life, cbs>> /\ asked' \in SUBSET Pdus /\ asked \subseteq asked'
SubmitEffect(p) ==
    /\ life[p] = "unused"
    /\ life' = [life EXCEPT ![p] = "live"]
    /\ UNCHANGED <<cbs, asked>>
CompleteEffect(S, status) ==
    /\ S \subseteq Live
    /\ life' = Freed(S)
    /\ cbs' = Called(S, status)
    /\ UNCHANGED asked
CancelEffect(p) ==
    /\ life[p] = "live"
    /\ life' = Freed({p})
    /\ UNCHANGED cbs
    /\ asked' = asked \cup {p}

Effect ==
    \/ NoEffect
    \/ RefusedEffect
    \/ \E p \in Pdus : SubmitEffect(p) \/ CancelEffect(p)
    \/ \E S \in SUBSET Pdus, status \in Status : CompleteEffect(S, status)

\* The statuses the library passes to a callback are statuses.
LEMMA StatusValues == {"SUCCESS", "ERROR", "CANCEL", "TIMEOUT"} \subseteq Status
BY DEF Status

\* A purge of commands that are live completes them.
LEMMA PurgeIsComplete ==
    ASSUME NEW q, NEW w, NEW status \in Status, Elems(q) \cup w \subseteq Live,
           rpc_purge_all_pdus(q, w, status), asked' = asked
    PROVE  Effect
<1>1. CompleteEffect(Elems(q) \cup w, status)
  BY DEF rpc_purge_all_pdus, CompleteEffect
<1>2. Elems(q) \cup w \in SUBSET Pdus
  BY DEF Live
<1>. QED  BY <1>1, <1>2 DEF Effect

\* The end of rpc_read_from_socket completes the PDU it has read.
LEMMA FinishedIsComplete ==
    ASSUME IInv, NEW status \in Status, pdu # NULL, rpc_finished_pdu(status), asked' = asked
    PROVE  Effect
<1>1. pdu \in Pdus /\ {pdu} \subseteq Live
  BY DEF IInv, TypeOK, TypeReader, OnePlace, Live
<1>2. CompleteEffect({pdu}, status)
  BY <1>1 DEF rpc_finished_pdu, CompleteEffect
<1>. QED  BY <1>1, <1>2 DEF Effect

\* The PDUs that are allocated are those in a queue or in rpc->pdu.
LEMMA PlacesAreLive ==
    ASSUME IInv PROVE Elems(outqueue) \cup waitpdu \cup ({pdu} \ {NULL}) = Live
BY DEF IInv, OnePlace, Live

\* A reconnect completes some PDUs with an error and leaves the others alone.
LEMMA RequeueEffect == ASSUME IInv, rpc_reconnect_requeue PROVE Effect
<1>1. asked' = asked /\ "ERROR" \in Status
  BY StatusValues DEF rpc_reconnect_requeue
<1>2. CASE auto_reconnect = 0
  <2>1. rpc_purge_all_pdus(outqueue, waitpdu, "ERROR")
    BY <1>2 DEF rpc_reconnect_requeue
  <2>. QED  BY <1>1, <2>1, PlacesAreLive, PurgeIsComplete
<1>3. CASE auto_reconnect # 0
  <2> DEFINE Back(q) == IF pdu = NULL THEN q ELSE rpc_return_to_outqueue(q, pdu)
  <2>1. PICK q \in ReturnAll(outqueue, waitpdu) :
          UNCHANGED <<life, cbs>> \/ rpc_purge_all_pdus(Back(q), {}, "ERROR")
    BY <1>3 DEF rpc_reconnect_requeue
  <2> DEFINE all == Back(q)
  <2>2. IsQueue(q, Elems(outqueue) \cup waitpdu)
    <3>1. /\ waitpdu \in SUBSET Pdus /\ waitpdu \cap Elems(outqueue) = {}
          /\ Cardinality(waitpdu) \in Nat
      BY PduSets DEF IInv, TypeOK, TypeQueues, OnePlace
    <3>. QED  BY <3>1, Outqueue, ReturnAllQueue
  <2>3. Elems(all) \subseteq Live
    <3>1. CASE pdu = NULL
      BY <2>1, <2>2, <3>1, PlacesAreLive DEF IsQueue
    <3>2. CASE pdu # NULL
      <4>1. pdu \in Pdus /\ pdu \notin Elems(outqueue) \cup waitpdu
        BY <3>2 DEF IInv, TypeOK, TypeReader, OnePlace
      <4>2. IsQueue(all, (Elems(outqueue) \cup waitpdu) \cup {pdu})
        BY <2>1, <2>2, <3>2, <4>1, ReturnQueue
      <4>. QED  BY <3>2, <4>2, PlacesAreLive DEF IsQueue
    <3>. QED  BY <3>1, <3>2
  <2>4. CASE UNCHANGED <<life, cbs>>
    BY <1>1, <2>4 DEF Effect, NoEffect
  <2>5. CASE rpc_purge_all_pdus(all, {}, "ERROR")
    <3>1. Elems(all) \cup {} \subseteq Live
      BY <2>3
    <3>. QED  BY <1>1, <2>5, <3>1, PurgeIsComplete
  <2>. QED  BY <2>1, <2>4, <2>5
<1>. QED  BY <1>2, <1>3

\* rpc_process_pdu completes at most the PDU it has read, unless a zero-copy read is denied.
LEMMA PayloadEffect ==
    ASSUME IInv, NoDeniedRead, NEW kind \in ReplyKinds, ReadPayload(kind) PROVE Effect
<1>1. pdu # NULL /\ asked' = asked
  BY DEF ReadPayload
<1>2. \/ \E status \in Status : rpc_finished_pdu(status)
      \/ UNCHANGED <<life, cbs>>
  BY StatusValues DEF ReadPayload, NoDeniedRead
<1>3. CASE \E status \in Status : rpc_finished_pdu(status)
  BY <1>1, <1>3, FinishedIsComplete
<1>4. CASE UNCHANGED <<life, cbs>>
  BY <1>1, <1>4 DEF Effect, NoEffect
<1>. QED  BY <1>2, <1>3, <1>4

\* rpc_cancel_pdu frees the PDU it finds, without its callback, and no other.
LEMMA CancelIsEffect == ASSUME IInv, NEW p \in Pdus, rpc_cancel_pdu(p) PROVE Effect
<1>1. CASE Findable(p, rm_hash)
  <2>1. CancelEffect(p)
    BY <1>1 DEF rpc_cancel_pdu, CancelEffect
  <2>. QED  BY <2>1 DEF Effect
<1>2. CASE ~Findable(p, rm_hash)
  <2>1. RefusedEffect
    BY <1>2 DEF rpc_cancel_pdu, RefusedEffect, IInv, TypeOK, TypeApp
  <2>. QED  BY <2>1 DEF Effect
<1>. QED  BY <1>1, <1>2

\* Every step submits a PDU, completes some, cancels one or leaves them all alone.
LEMMA StepEffect == ASSUME IInv, NoDeniedRead, [Next]_vars PROVE Effect
<1>1. CASE \/ rpc_connect_async \/ rpc_set_resiliency \/ ServiceConnected
           \/ ServiceSocketError \/ ServiceConnectFailed \/ ServiceWrite
           \/ ReadUnknown \/ ReadFails \/ UNCHANGED vars
           \/ \E p \in Pdus : ReadRecordMarker(p) \/ ReadNoMemory(p)
  <2>1. NoEffect
    BY <1>1, Zenon, ZenonT(60)
    DEF rpc_connect_async, rpc_set_resiliency, ServiceConnected, ServiceSocketError,
        ServiceConnectFailed, ServiceWrite, ReadUnknown, ReadFails, ReadRecordMarker,
        ReadNoMemory, vars, app, NoEffect
  <2>. QED  BY <2>1 DEF Effect
<1>2. ASSUME NEW p \in Pdus, rpc_queue_pdu(p) PROVE Effect
  <2>1. SubmitEffect(p)
    BY <1>2 DEF rpc_queue_pdu, SubmitEffect
  <2>. QED  BY <2>1 DEF Effect
<1>3. ASSUME NEW kind \in ReplyKinds, ReadPayload(kind) PROVE Effect
  BY <1>3, PayloadEffect
<1>4. CASE ReadData
  <2>1. CASE rpc_finished_pdu("SUCCESS") /\ state \in {"READ_IOVEC", "READ_PADDING"}
    BY <1>4, <2>1, StatusValues, FinishedIsComplete DEF ReadData, IInv, ReaderOK
  <2>2. CASE UNCHANGED <<life, cbs>>
    BY <1>4, <2>2 DEF ReadData, Effect, NoEffect
  <2>. QED  BY <1>4, <2>1, <2>2 DEF ReadData
<1>5. ASSUME NEW X \in SUBSET Elems(outqueue), NEW Y \in SUBSET waitpdu,
             rpc_timeout_scan(X, Y)
      PROVE  Effect
  <2> DEFINE S == {p \in X \cup Y : ~Retried(p)}
  <2>1. S \subseteq Live
    BY PlacesAreLive
  <2>2. CompleteEffect(S, "TIMEOUT")
    BY <1>5, <2>1 DEF rpc_timeout_scan, CompleteEffect
  <2>3. S \in SUBSET Pdus
    BY <2>1 DEF Live
  <2>. QED  BY <2>2, <2>3, StatusValues DEF Effect
<1>6. CASE rpc_reconnect_requeue
  BY <1>6, RequeueEffect
<1>7. ASSUME NEW p \in Pdus, rpc_cancel_pdu(p) PROVE Effect
  BY <1>7, CancelIsEffect
<1>8. CASE rpc_disconnect
  <2>1. CASE rpc_purge_all_pdus(outqueue, waitpdu, "ERROR")
    BY <1>8, <2>1, StatusValues, PlacesAreLive, PurgeIsComplete
         DEF rpc_disconnect
  <2>2. CASE UNCHANGED <<life, cbs>>
    BY <1>8, <2>2 DEF rpc_disconnect, Effect, NoEffect
  <2>. QED  BY <1>8, <2>1, <2>2 DEF rpc_disconnect
<1>9. CASE rpc_destroy_context
  BY <1>9, StatusValues, PlacesAreLive, PurgeIsComplete DEF rpc_destroy_context
<1>. QED
  BY <1>1, <1>2, <1>3, <1>4, <1>5, <1>6, <1>7, <1>8, <1>9 DEF Next, Read

-----------------------------------------------------------------------------
\* A step with such an effect calls no callback twice.
LEMMA CallbackStep ==
    ASSUME IInv, CallbackOnce, Effect PROVE CallbackOnce'
<1>1. /\ life \in [Pdus -> {"unused", "live", "freed"}]
      /\ cbs \in [Pdus -> Seq(Status)]
  BY DEF IInv, TypeOK, TypeApp
<1> USE DEF CallbackOnce
<1>2. CASE NoEffect \/ RefusedEffect
  BY <1>2 DEF NoEffect, RefusedEffect
<1>3. ASSUME NEW p \in Pdus, SubmitEffect(p) PROVE CallbackOnce'
  BY <1>1, <1>3 DEF SubmitEffect
<1>4. ASSUME NEW p \in Pdus, CancelEffect(p) PROVE CallbackOnce'
  BY <1>1, <1>4 DEF CancelEffect, Freed
<1>5. ASSUME NEW S \in SUBSET Pdus, NEW status \in Status, CompleteEffect(S, status)
      PROVE  CallbackOnce'
  <2> SUFFICES ASSUME NEW p \in Pdus
               PROVE  /\ Len(cbs'[p]) <= 1
                      /\ life'[p] # "freed" => cbs'[p] = <<>>
                      /\ life'[p] = "freed" /\ cbs'[p] = <<>> => p \in asked'
    OBVIOUS
  <2>1. CASE p \in S
    <3>1. life[p] = "live" /\ cbs[p] = <<>>
      BY <1>5, <2>1 DEF CompleteEffect, Live
    <3>2. life'[p] = "freed" /\ cbs'[p] = Append(cbs[p], status)
      BY <1>5, <2>1 DEF CompleteEffect, Freed, Called
    <3>3. cbs'[p] = <<status>>
      BY <3>1, <3>2
    <3>. QED  BY <3>2, <3>3
  <2>2. CASE p \notin S
    BY <1>5, <2>2 DEF CompleteEffect, Freed, Called
  <2>. QED  BY <2>1, <2>2
<1>. QED  BY <1>2, <1>3, <1>4, <1>5 DEF Effect

\* A command's callback runs at most once, and only a command the application
\* cancelled is freed without it.
THEOREM CallbackOnceAlways ==
    ASSUME NoDeniedRead PROVE Spec => []CallbackOnce
<1>1. Init => CallbackOnce
  BY DEF Init, CallbackOnce
<1>2. IInv /\ CallbackOnce /\ [Next]_vars => CallbackOnce'
  BY StepEffect, CallbackStep
<1>. QED  BY <1>1, <1>2, InitIInv, NextIInv, PTL DEF Spec

\* The transport implements RpcCommands.
THEOREM TransportRefinesCommands ==
    ASSUME NoDeniedRead PROVE Spec => RefinesCommands
<1>1. Init => Commands!CommandsInit
  BY DEF Init, Commands!CommandsInit
<1>2. IInv /\ [Next]_vars => [Commands!CommandsNext]_(Commands!commands)
  <2> SUFFICES ASSUME Effect, IInv
               PROVE  [Commands!CommandsNext]_(Commands!commands)
    BY StepEffect
  <2>1. life \in [Pdus -> {"unused", "live", "freed"}]
    BY DEF IInv, TypeOK, TypeApp
  <2>2. CASE NoEffect \/ RefusedEffect
    BY <2>2 DEF NoEffect, RefusedEffect, Commands!commands
  <2>3. ASSUME NEW p \in Pdus, SubmitEffect(p) PROVE Commands!CommandsNext
    BY <2>3, Zenon, ZenonT(60) DEF SubmitEffect, Commands!CommandsNext, Commands!Submit
  <2>4. ASSUME NEW p \in Pdus, CancelEffect(p) PROVE Commands!CommandsNext
    <3>1. Freed({p}) = [life EXCEPT ![p] = "freed"]
      BY <2>1, Zenon, ZenonT(60) DEF Freed
    <3>. QED  BY <2>4, <3>1 DEF CancelEffect, Commands!CommandsNext, Commands!Cancel
  <2>5. ASSUME NEW S \in SUBSET Pdus, NEW status \in Status, CompleteEffect(S, status)
        PROVE  Commands!CommandsNext
    <3>1. Commands!Complete(S, status)
      BY <2>5 DEF CompleteEffect, Live, Freed, Called, Commands!Complete
    <3>. QED  BY <3>1 DEF Commands!CommandsNext
  <2>. QED  BY <2>2, <2>3, <2>4, <2>5 DEF Effect
<1>. QED
  BY <1>1, <1>2, InitIInv, NextIInv, PTL
  DEF Spec, RefinesCommands, Commands!CommandsSpec

-----------------------------------------------------------------------------
\* rpc_disconnect on a connection that is up calls back every command, when it
\* is not called while a reply is half read.
THEOREM DisconnectCompletes ==
    ASSUME TeardownMidReply = FALSE PROVE Spec => DisconnectCompletesWhenUp
<1>1. IInv /\ [Next]_vars =>
        [DisconnectStep /\ is_connected => \A p \in Pdus : life'[p] # "live"]_vars
  <2> SUFFICES ASSUME IInv, Next, DisconnectStep, is_connected,
                      NEW p \in Pdus
               PROVE  life'[p] # "live"
    OBVIOUS
  <2>1. rpc_disconnect
    <3>1. pc = "idle" /\ pc' = "idle" /\ fd # "none" /\ fd' = "none"
      BY DEF DisconnectStep
    <3>2. ~(\/ rpc_connect_async \/ rpc_set_resiliency \/ ServiceConnected
            \/ ServiceSocketError \/ ServiceConnectFailed \/ ServiceWrite)
      BY <3>1, Zenon, ZenonT(60)
      DEF rpc_connect_async, rpc_set_resiliency, ServiceConnected, ServiceSocketError,
          ServiceConnectFailed, ServiceWrite, SocketFault
    <3>3. ~(\/ Read \/ ReadFails \/ \E x \in Pdus : ReadNoMemory(x))
      BY <3>1, Zenon, ZenonT(60)
      DEF Read, ReadRecordMarker, ReadUnknown, ReadPayload, ReadData, ReadFails,
          ReadNoMemory, conn
    <3>4. ~(\/ rpc_reconnect_requeue \/ rpc_destroy_context
            \/ \E x \in Pdus : rpc_queue_pdu(x) \/ rpc_cancel_pdu(x))
      BY <3>1, Zenon, ZenonT(60)
      DEF rpc_reconnect_requeue, rpc_destroy_context, rpc_queue_pdu, rpc_cancel_pdu, conn
    <3>5. ~ \E X \in SUBSET Elems(outqueue), Y \in SUBSET waitpdu : rpc_timeout_scan(X, Y)
      BY <3>1, Zenon, ZenonT(60) DEF rpc_timeout_scan, conn
    <3>. QED  BY <3>2, <3>3, <3>4, <3>5 DEF Next
  <2>2. rpc_purge_all_pdus(outqueue, waitpdu, "ERROR") /\ pdu = NULL
    BY <2>1 DEF rpc_disconnect, MayEnd, IInv, ReaderOK
  <2>3. life' = Freed(Elems(outqueue) \cup waitpdu)
    BY <2>2 DEF rpc_purge_all_pdus
  <2>4. Live = Elems(outqueue) \cup waitpdu
    BY <2>2, PlacesAreLive
  <2>. QED  BY <2>3, <2>4 DEF Freed, Live
<1>. QED
  BY <1>1, InitIInv, NextIInv, PTL DEF Spec, DisconnectCompletesWhenUp

-----------------------------------------------------------------------------
(* waitpdu_len against the chains, step by step.                           *)

\* Unless the step leaves both queues empty, the counter gains nothing on the chains.
InStep ==
    (outqueue' # <<>> \/ waitpdu' # {}) =>
        waitpdu_len' - Cardinality(waitpdu') <= waitpdu_len - Cardinality(waitpdu)

\* The first n commands of a queue are n commands.
LEMMA PrefixExact ==
    ASSUME NEW q, NEW Q, IsQueue(q, Q), NEW n \in 0..Len(q)
    PROVE  Cardinality({q[i] : i \in 1..n}) = n
<1> DEFINE S == {q[i] : i \in 1..n}
           f == [i \in 1..n |-> q[i]]
<1>1. n \in Nat /\ DOMAIN q = 1..Len(q) /\ Len(q) \in Nat
  BY DEF IsQueue
<1>2. \A i \in 1..n : i \in DOMAIN q
  BY <1>1
<1>3. \A i, j \in 1..n : f[i] = f[j] => i = j
  BY <1>2 DEF IsQueue
<1>4. f \in Surjection(1..n, S)
  BY DEF Surjection
<1>5. f \in Bijection(1..n, S)
  <2>1. f \in [1..n -> S] /\ DOMAIN f = 1..n
    OBVIOUS
  <2> HIDE DEF f, S
  <2>. QED  BY <1>3, <1>4, <2>1, Zenon, ZenonT(60) DEF Bijection, Injection, IsInjective
<1>6. ExistsBijection(1..n, S)
  BY <1>5 DEF ExistsBijection
<1>7. IsFiniteSet(1..n) /\ Cardinality(1..n) = n
  BY <1>1, FS_Interval
<1>. QED  BY <1>6, <1>7, FS_Bijection

\* rpc_write_to_socket counts every command it moves to a chain.
LEMMA WriteInStep ==
    ASSUME IInv, NEW q, NEW Q \in SUBSET Pdus, IsQueue(q, Q), Q \cap waitpdu = {},
           NEW n \in 0..Len(q), NEW k, rpc_write_to_socket(q, n, k)
    PROVE  InStep
<1> DEFINE sent == {q[i] : i \in 1..n}
<1>1. waitpdu' = waitpdu \cup sent /\ waitpdu_len' = waitpdu_len + n
  BY DEF rpc_write_to_socket
<1>2. sent \subseteq Q
  BY SplitQueue, Zenon, ZenonT(60)
<1>3. Cardinality(sent) = n
  BY PrefixExact
<1> HIDE DEF sent
<1>4. IsFiniteSet(sent) /\ IsFiniteSet(waitpdu) /\ sent \cap waitpdu = {}
  BY <1>2, PduSets DEF IInv, TypeOK, TypeQueues
<1>5. Cardinality(waitpdu') = Cardinality(waitpdu) + n
  <2>1. waitpdu \cap sent = {}
    BY <1>4
  <2>2. Cardinality(waitpdu') = Cardinality(waitpdu) + Cardinality(sent) - Cardinality({})
    BY <1>1, <1>4, <2>1, FS_Union
  <2>3. Cardinality(waitpdu) \in Nat /\ n \in Nat /\ Cardinality({}) = 0
    BY <1>4, FS_EmptySet, FS_CardinalityType
  <2>. QED  BY <1>3, <2>2, <2>3
<1>6. Cardinality(waitpdu) \in Nat /\ waitpdu_len \in Nat /\ n \in Nat
  BY <1>4, FS_CardinalityType DEF IInv, TypeOK, TypeQueues
<1>. QED  BY <1>1, <1>5, <1>6 DEF InStep

\* A command found on a chain is discounted, one found on outqueue is not.
LEMMA FindInStep ==
    ASSUME IInv, NEW p \in Pdus, NEW hash, rpc_find_pdu(p, hash)
    PROVE  InStep
<1>1. IsFiniteSet(waitpdu) /\ Cardinality(waitpdu) \in Nat /\ waitpdu_len \in Nat
  BY PduSets DEF IInv, TypeOK, TypeQueues
<1>2. CASE UNCHANGED <<waitpdu, waitpdu_len>>
  BY <1>1, <1>2 DEF InStep
<1>3. CASE /\ p \in waitpdu /\ waitpdu' = waitpdu \ {p}
           /\ waitpdu_len' = waitpdu_len - 1
  <2>1. Cardinality(waitpdu') = Cardinality(waitpdu) - 1
    BY <1>1, <1>3, FS_RemoveElement
  <2>. QED  BY <1>1, <1>3, <2>1 DEF InStep
<1>. QED  BY <1>2, <1>3 DEF rpc_find_pdu

\* Every step counts in waitpdu_len no more PDUs than it links to waitpdu[], or empties
\* both queues.
LEMMA NextInStep == ASSUME IInv, [Next]_vars PROVE InStep
<1>1. IsFiniteSet(waitpdu) /\ Cardinality(waitpdu) \in Nat /\ waitpdu_len \in Nat
  BY PduSets DEF IInv, TypeOK, TypeQueues
<1>2. ASSUME UNCHANGED <<waitpdu, waitpdu_len>> PROVE InStep
  BY <1>1, <1>2 DEF InStep
<1>3. ASSUME outqueue' = <<>>, waitpdu' = {} PROVE InStep
  BY <1>3 DEF InStep
<1>4. ASSUME NEW q, NEW w, NEW s, rpc_purge_all_pdus(q, w, s) PROVE InStep
  BY <1>3, <1>4 DEF rpc_purge_all_pdus
<1>5. CASE \/ rpc_connect_async \/ rpc_set_resiliency \/ ServiceConnected
           \/ ServiceSocketError \/ ServiceConnectFailed \/ ReadUnknown \/ ReadData
           \/ ReadFails \/ UNCHANGED vars
           \/ \E kind \in ReplyKinds : ReadPayload(kind)
  <2>1. UNCHANGED <<waitpdu, waitpdu_len>>
    BY <1>5, Zenon, ZenonT(60)
    DEF rpc_connect_async, rpc_set_resiliency, ServiceConnected, ServiceSocketError,
        ServiceConnectFailed, ReadUnknown, ReadData, ReadFails, ReadPayload, vars, queues
  <2>. QED  BY <1>2, <2>1
<1>6. ASSUME NEW p \in Pdus, rpc_queue_pdu(p) PROVE InStep
  <2>1. CASE UNCHANGED <<waitpdu, waitpdu_len>>
    BY <1>2, <2>1
  <2>2. CASE \E n \in 0..1, k \in 0..(RecordSize - 1) : rpc_write_to_socket(<<p>>, n, k)
    <3>1. IsQueue(<<p>>, {p}) /\ Len(<<p>>) = 1
      BY DEF IsQueue, Elems
    <3>2. {p} \cap waitpdu = {}
      BY <1>6 DEF rpc_queue_pdu, IInv, OnePlace
    <3>. QED  BY <2>2, <3>1, <3>2, WriteInStep
  <2>. QED  BY <1>6, <2>1, <2>2 DEF rpc_queue_pdu
<1>7. ASSUME ServiceWrite PROVE InStep
  <2>1. PICK n \in 0..Len(outqueue), k \in 0..(RecordSize - 1) :
           rpc_write_to_socket(outqueue, n, k)
    BY <1>7 DEF ServiceWrite
  <2>2. Elems(outqueue) \cap waitpdu = {} /\ Elems(outqueue) \in SUBSET Pdus
    BY Outqueue DEF IInv, OnePlace
  <2>3. IsQueue(outqueue, Elems(outqueue))
    BY Outqueue
  <2>. QED  BY <2>1, <2>2, <2>3, WriteInStep, Zenon, ZenonT(60)
<1>8. ASSUME NEW p \in Pdus, ReadRecordMarker(p) PROVE InStep
  BY <1>2, <1>8, FindInStep DEF ReadRecordMarker
<1>9. ASSUME NEW p \in Pdus, rpc_cancel_pdu(p) PROVE InStep
  BY <1>2, <1>9, FindInStep DEF rpc_cancel_pdu
<1>10. ASSUME NEW p \in Pdus, ReadNoMemory(p) PROVE InStep
  <2>1. \/ UNCHANGED <<waitpdu, waitpdu_len>>
        \/ /\ waitpdu' = waitpdu \ {p}
           /\ waitpdu_len' = waitpdu_len - (IF p \in waitpdu THEN 1 ELSE 0)
    BY <1>10 DEF ReadNoMemory, queues
  <2>2. Cardinality(waitpdu \ {p}) = IF p \in waitpdu THEN Cardinality(waitpdu) - 1
                                     ELSE Cardinality(waitpdu)
    BY <1>1, FS_RemoveElement, Zenon, ZenonT(60)
  <2>3. CASE /\ waitpdu' = waitpdu \ {p}
             /\ waitpdu_len' = waitpdu_len - (IF p \in waitpdu THEN 1 ELSE 0)
    <3>1. CASE p \in waitpdu
      BY <1>1, <2>2, <2>3, <3>1 DEF InStep
    <3>2. CASE p \notin waitpdu
      BY <1>1, <2>2, <2>3, <3>2 DEF InStep
    <3>. QED  BY <3>1, <3>2
  <2>. QED  BY <1>2, <2>1, <2>3
<1>11. ASSUME NEW X, NEW Y \in SUBSET waitpdu, rpc_timeout_scan(X, Y) PROVE InStep
  <2>1. waitpdu' = waitpdu \ Y /\ waitpdu_len' = waitpdu_len - Cardinality(Y)
    BY <1>11 DEF rpc_timeout_scan
  <2>2. waitpdu \in SUBSET Pdus /\ Y \in SUBSET Pdus
    BY DEF IInv, TypeOK, TypeQueues
  <2>3. Cardinality(waitpdu \ Y) = Cardinality(waitpdu) - Cardinality(Y)
    BY <2>2, DiffSize
  <2>4. Cardinality(Y) \in Nat
    BY <2>2, PduSets
  <2>. QED  BY <1>1, <2>1, <2>3, <2>4 DEF InStep
<1>12. ASSUME rpc_reconnect_requeue PROVE InStep
  <2>1. \/ \E q, w : rpc_purge_all_pdus(q, w, "ERROR")
        \/ waitpdu' = {} /\ waitpdu_len' = 0
    BY <1>12 DEF rpc_reconnect_requeue
  <2>2. CASE waitpdu' = {} /\ waitpdu_len' = 0
    <3>1. Cardinality({}) = 0
      BY FS_EmptySet
    <3>. QED  BY <1>1, <2>2, <3>1 DEF InStep, IInv, CountOK
  <2>. QED  BY <1>4, <2>1, <2>2
<1>13. ASSUME rpc_disconnect PROVE InStep
  <2>1. \/ rpc_purge_all_pdus(outqueue, waitpdu, "ERROR")
        \/ UNCHANGED <<waitpdu, waitpdu_len>>
    BY <1>13 DEF rpc_disconnect
  <2>. QED  BY <1>2, <1>4, <2>1
<1>14. ASSUME rpc_destroy_context PROVE InStep
  BY <1>4, <1>14 DEF rpc_destroy_context
<1>. QED
  BY <1>5, <1>6, <1>7, <1>8, <1>9, <1>10, <1>11, <1>12, <1>13, <1>14, Zenon, ZenonT(60)
  DEF Next, Read

\* rpc_get_num_awaiting stays in step with the commands that await a reply; only a
\* purge (rpc_purge_all_pdus leaves waitpdu_len alone) lets it run ahead.
THEOREM AwaitingStaysExact == Spec => AwaitingExact
<1>1. IInv /\ [Next]_vars =>
        [(outqueue' # <<>> \/ waitpdu' # {}) =>
            waitpdu_len' - Cardinality(waitpdu') <= waitpdu_len - Cardinality(waitpdu)]_vars
  BY NextInStep DEF InStep
<1>. QED  BY <1>1, InitIInv, NextIInv, PTL DEF Spec, AwaitingExact

=============================================================================
