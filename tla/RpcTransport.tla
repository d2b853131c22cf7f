---------------------------- MODULE RpcTransport ----------------------------
(***************************************************************************)
(* The client side of one TCP rpc_context: lib/socket.c, lib/pdu.c and the *)
(* queue code of lib/init.c.  A command (struct rpc_pdu) travels           *)
(*                                                                         *)
(*    rpc_queue_pdu -> outqueue -> waitpdu[] -> rpc->pdu -> callback, free *)
(*                                                                         *)
(* and may be sent back to outqueue by a timeout or a reconnect, or be     *)
(* completed early by a purge.  The context is driven by one event loop:   *)
(* the application's calls and the parts of rpc_service() (timeout scan,   *)
(* read, write) are atomic steps.  The one place where rpc_service() is    *)
(* cut in two is the call of rpc_reconnect_requeue(): a part that fails    *)
(* sets pc = "requeue" and nothing else can happen before that call.       *)
(*                                                                         *)
(* Lengths are abstract: a record is RecordSize units of which writev()    *)
(* may accept any prefix; a reply is read phase by phase (input_state).    *)
(* Time is abstract: the scan may find any set of commands expired.        *)
(***************************************************************************)
EXTENDS Integers, Sequences, FiniteSets

CONSTANTS
    Pdus,           \* the commands the application issues, each one once
    NULL,           \* the C null pointer
    RecordSize,     \* out.total_size: units in a record
    MaxWaitpduLen,  \* max_waitpdu_len: 0 means no limit
    HashXid,        \* [Pdus -> Nat]: rpc_hash_xid(pdu->xid)
    ZeroCopy,       \* the zero-copy READs (pdu->in.base != NULL)
    DoNotRetry,     \* the commands with pdu->do_not_retry
    NfsVersion,     \* rpc->version: 3 or 4
    ReplyKinds,     \* what a reply may say: see ReadPayload
    AutoReconnect,  \* num_tcp_reconnect given to rpc_set_resiliency
    Retrans,        \* retrans given to rpc_set_resiliency
    Cancellable,    \* commands the application may rpc_cancel_pdu
    TeardownMidReply, \* may disconnect/destroy while a reply is half read?
    MayTeardown,    \* may the application disconnect or destroy at all?
    MaxFaults,      \* bound: failures of the network and of system calls
    MaxExpiries     \* bound: timeouts found by rpc_timeout_scan (0: rpc->timeout <= 0)

ASSUME TransportAssumption ==
    /\ NULL \notin Pdus
    /\ IsFiniteSet(Pdus)
    /\ RecordSize \in Nat \ {0}
    /\ MaxWaitpduLen \in Nat
    /\ HashXid \in [Pdus -> Nat]
    /\ ZeroCopy \subseteq Pdus
    /\ DoNotRetry \subseteq Pdus
    /\ NfsVersion \in {3, 4}
    /\ ReplyKinds \subseteq {"ok", "nfserr", "rpcerr"}
    /\ AutoReconnect \in Int
    /\ Retrans \in Nat
    /\ Cancellable \subseteq Pdus
    /\ TeardownMidReply \in BOOLEAN
    /\ MayTeardown \in BOOLEAN
    /\ MaxFaults \in Nat
    /\ MaxExpiries \in Nat

VARIABLES
    outqueue,       \* rpc->outqueue, head first
    num_done,       \* pdu->out.num_done
    waitpdu,        \* union of the chains rpc->waitpdu[]; p is on chain HashXid[p]
    waitpdu_len,    \* rpc->waitpdu_len
    pdu,            \* rpc->pdu: the command whose reply is being read
    state,          \* rpc->state
    rm_hash,        \* hash of rpc->rm_xid[1], the last xid read
    fd,             \* rpc->fd: "none" for -1, else what its socket is
    is_connected,   \* rpc->is_connected
    connect_cb,     \* rpc->connect_cb: "none", "user" or "reconnect" (reconnect_cb)
    auto_reconnect, \* rpc->auto_reconnect
    retrans,        \* rpc->retrans
    num_retries,    \* rpc->num_retries
    failed,         \* rpc_service() has returned -1, and nothing since made up for it
    pc,             \* "idle", "destroyed", or rpc_reconnect_requeue is being called:
                    \* "requeue" by rpc_service, "requeue_cb" by reconnect_cb
    life,           \* allocation state of each pdu
    cbs,            \* statuses each command's callback was called with
    asked,          \* commands rpc_cancel_pdu was called for
    halfsent,       \* command whose record the current connection carries a part of
    server,         \* replies the server owes on the current connection, per command
    faults,         \* failures so far
    expiries        \* timeouts so far

queues == <<outqueue, num_done, waitpdu, waitpdu_len>>
reader == <<pdu, state, rm_hash>>
conn   == <<fd, is_connected, connect_cb, auto_reconnect, retrans, num_retries,
            failed>>
app    == <<life, cbs, asked>>
wire   == <<halfsent, server>>
vars   == <<queues, reader, conn, pc, app, wire, faults, expiries>>

Status == {"SUCCESS", "ERROR", "CANCEL", "TIMEOUT"}
InputState == {"READ_RM", "READ_PAYLOAD", "READ_FRAGMENT", "READ_IOVEC",
               "READ_PADDING", "READ_UNKNOWN"}

Init ==
    /\ outqueue = <<>>
    /\ num_done = [p \in Pdus |-> 0]
    /\ waitpdu = {}
    /\ waitpdu_len = 0
    /\ pdu = NULL
    /\ state = "READ_RM"
    /\ rm_hash = 0
    /\ fd = "none"
    /\ is_connected = FALSE
    /\ connect_cb = "none"
    /\ auto_reconnect = 0
    /\ retrans = 0
    /\ num_retries = 0
    /\ failed = FALSE
    /\ pc = "idle"
    /\ life = [p \in Pdus |-> "unused"]
    /\ cbs = [p \in Pdus |-> <<>>]
    /\ asked = {}
    /\ halfsent = NULL
    /\ server = [p \in Pdus |-> 0]
    /\ faults = 0
    /\ expiries = 0

-----------------------------------------------------------------------------
(* Queue helpers.                                                          *)

Elems(q) == {q[i] : i \in DOMAIN q}

Precedes(q, a, b) ==
    \E i, j \in DOMAIN q : i < j /\ q[i] = a /\ q[j] = b

\* q without the members of S, in q's order: the only member of this set.
rpc_remove_pdu_from_queue(q, S) ==
    {r \in UNION {[1..n -> Elems(q) \ S] : n \in 0..Len(q)} :
        /\ Elems(q) \ S \subseteq Elems(r)
        /\ \A i, j \in DOMAIN r : i < j => Precedes(q, r[i], r[j])}

\* All sequences that list the members of the finite set S once each.
Orderings(S) ==
    {f \in UNION {[1..n -> S] : n \in 0..Cardinality(S)} :
        /\ \A i, j \in DOMAIN f : f[i] = f[j] => i = j
        /\ S \subseteq Elems(f)}

\* Fault: the head is overwritten instead of linked to the returned command.
MutantReturnReplacesHead(q, p) ==
    IF q = <<>> THEN <<p>> ELSE <<p>> \o Tail(q)

\* A retransmitted command goes second: the head may be half sent.
rpc_return_to_outqueue(q, p) ==
    IF q = <<>> THEN <<p>> ELSE <<Head(q), p>> \o Tail(q)

\* Returning the members of S one after the other.  They are met chain by
\* chain; the order is left open.
ReturnAll(q, S) ==
    IF q = <<>> THEN Orderings(S)
    ELSE {<<Head(q)>> \o f \o Tail(q) : f \in Orderings(S)}

\* Fault: both rpc_process_reply and rpc_finished_pdu run the callback.
MutantCalledTwice(S, status) ==
    [p \in Pdus |-> IF p \in S THEN cbs[p] \o <<status, status>> ELSE cbs[p]]

\* The callbacks of the commands in S run once more, with the given status.
Called(S, status) ==
    [p \in Pdus |-> IF p \in S THEN Append(cbs[p], status) ELSE cbs[p]]

Freed(S) == [p \in Pdus |-> IF p \in S THEN "freed" ELSE life[p]]

\* Fault: out.num_done is not reset when a command is to be sent again.
MutantKeepDone(S) == num_done

ResetDone(S) == [p \in Pdus |-> IF p \in S THEN 0 ELSE num_done[p]]

-----------------------------------------------------------------------------
(* Completing everything at once: rpc_purge_all_pdus.  The commands of the *)
(* queue q and of the chains w are called back and freed.  The queues end  *)
(* up empty, waitpdu_len and rpc->pdu keep their values.                   *)

\* Fault: only outqueue is walked, and the chains stay.
MutantPurgeOutqueueOnly(q, w, status) ==
    /\ outqueue' = <<>>
    /\ waitpdu' = w
    /\ cbs' = Called(Elems(q), status)
    /\ life' = Freed(Elems(q))

rpc_purge_all_pdus(q, w, status) ==
    /\ outqueue' = <<>>
    /\ waitpdu' = {}
    /\ cbs' = Called(Elems(q) \cup w, status)
    /\ life' = Freed(Elems(q) \cup w)

\* A new or closed connection carries nothing.
FreshWire ==
    /\ halfsent' = NULL
    /\ server' = [p \in Pdus |-> 0]

\* A failure of the environment; the number of them is bounded.
Fault ==
    /\ faults < MaxFaults
    /\ faults' = faults + 1

\* The socket breaks, or is found broken or missing.
SocketFault ==
    IF fd \in {"connecting", "up"} THEN Fault /\ fd' = "dead"
    ELSE UNCHANGED <<fd, faults>>

-----------------------------------------------------------------------------
(* Connecting.                                                             *)

\* The call fails when the address does not resolve or a step of
\* rpc_connect_sockaddr_async does.
rpc_connect_async ==
    /\ pc = "idle"
    /\ fd = "none"
    /\ auto_reconnect' = 0
    /\ \/ /\ fd' = "connecting" /\ connect_cb' = "user" /\ failed' = FALSE
          /\ UNCHANGED faults
       \/ fd' \in {"none", "dead"} /\ connect_cb' = "user" /\ Fault /\ UNCHANGED failed
       \/ Fault /\ UNCHANGED <<fd, connect_cb, failed>>
    /\ FreshWire
    /\ UNCHANGED <<queues, reader, is_connected, retrans, num_retries, pc, app,
                   expiries>>

\* The application (nfs3_mount_async and nfs4_mount_async) asks for
\* reconnects and retransmissions once the connection is up.
rpc_set_resiliency ==
    /\ pc = "idle"
    /\ is_connected
    /\ <<auto_reconnect, retrans>> # <<AutoReconnect, Retrans>>
    /\ auto_reconnect' = AutoReconnect
    /\ retrans' = Retrans
    /\ UNCHANGED <<queues, reader, fd, is_connected, connect_cb, num_retries,
                   failed, pc, app, wire, faults, expiries>>

\* rpc_service(POLLOUT) on a socket that finished connecting.
ServiceConnected ==
    /\ pc = "idle"
    /\ fd = "connecting"
    /\ fd' = "up"
    /\ is_connected' = TRUE
    /\ connect_cb' = "none"
    /\ UNCHANGED <<queues, reader, auto_reconnect, retrans, num_retries, failed, pc,
                   app, wire, faults, expiries>>

\* rpc_service(POLLERR, POLLHUP or -1).
ServiceSocketError ==
    /\ pc = "idle"
    /\ SocketFault
    /\ IF auto_reconnect # 0
       THEN pc' = "requeue" /\ UNCHANGED <<connect_cb, failed>>
       ELSE connect_cb' = "none" /\ failed' = TRUE /\ UNCHANGED pc
    /\ UNCHANGED <<queues, reader, is_connected, auto_reconnect, retrans,
                   num_retries, app, wire, expiries>>

\* rpc_service(POLLOUT) on a socket that failed to connect: the callback is
\* told, and reconnect_cb tries again; the result is -1 all the same.
ServiceConnectFailed ==
    /\ pc = "idle"
    /\ fd # "none"
    /\ ~is_connected
    /\ SocketFault
    /\ connect_cb' = "none"
    /\ pc' = IF connect_cb = "reconnect" THEN "requeue_cb" ELSE "idle"
    /\ failed' = TRUE
    /\ UNCHANGED <<queues, reader, is_connected, auto_reconnect, retrans,
                   num_retries, app, wire, expiries>>

-----------------------------------------------------------------------------
(* Queueing and writing.                                                   *)

\* Fault: one command too many (>= for >).
MutantWindow(q) ==
    IF MaxWaitpduLen = 0 \/ Len(q) <= MaxWaitpduLen + 1 - waitpdu_len THEN Len(q)
    ELSE IF MaxWaitpduLen >= waitpdu_len THEN MaxWaitpduLen + 1 - waitpdu_len
    ELSE 0

\* How many commands of q rpc_write_to_socket may send now.
Window(q) ==
    IF MaxWaitpduLen = 0 \/ Len(q) <= MaxWaitpduLen - waitpdu_len THEN Len(q)
    ELSE IF MaxWaitpduLen > waitpdu_len THEN MaxWaitpduLen - waitpdu_len
    ELSE 0

\* Does the next unit written continue the record the connection carries?
Aligned(q) == halfsent = IF num_done[Head(q)] > 0 THEN Head(q) ELSE NULL

\* rpc_write_to_socket with outqueue q: the kernel takes n whole records and
\* leaves the next one with k units done.
rpc_write_to_socket(q, n, k) ==
    LET sent == {q[i] : i \in 1..n}
        next == IF n < Len(q) THEN q[n + 1] ELSE NULL
    IN  /\ n <= Window(q)
        /\ IF n < Window(q) THEN k >= num_done[next]
           ELSE k = IF next = NULL THEN 0 ELSE num_done[next]
        /\ outqueue' = SubSeq(q, n + 1, Len(q))
        /\ waitpdu' = waitpdu \cup sent
        /\ waitpdu_len' = waitpdu_len + n
        /\ num_done' = [p \in Pdus |-> IF p \in sent THEN RecordSize
                                       ELSE IF p = next THEN k ELSE num_done[p]]
        /\ IF Aligned(q)
           THEN /\ halfsent' = IF k > 0 THEN next ELSE NULL
                /\ server' = [p \in Pdus |-> IF p \in sent THEN server[p] + 1
                                             ELSE server[p]]
           ELSE UNCHANGED wire

\* The TCP path of rpc_queue_pdu: queue, and write at once if this is the head.
rpc_queue_pdu(p) ==
    /\ pc = "idle"
    /\ life[p] = "unused"
    /\ life' = [life EXCEPT ![p] = "live"]
    /\ IF outqueue = <<>> /\ fd = "up"
       THEN \E n \in 0..1, k \in 0..(RecordSize - 1) :
                rpc_write_to_socket(<<p>>, n, k)
       ELSE /\ outqueue' = Append(outqueue, p)
            /\ UNCHANGED <<num_done, waitpdu, waitpdu_len, wire>>
    /\ UNCHANGED <<reader, conn, pc, cbs, asked, faults, expiries>>

\* rpc_service(POLLOUT) on a connected socket.  An error of writev, which
\* ends the loop before the window is used up, leads to a reconnect.
ServiceWrite ==
    /\ pc = "idle"
    /\ fd = "up"
    /\ outqueue # <<>>
    /\ \E n \in 0..Len(outqueue), k \in 0..(RecordSize - 1) :
        /\ rpc_write_to_socket(outqueue, n, k)
        /\ \/ UNCHANGED <<fd, pc, faults>>
           \/ n < Window(outqueue) /\ SocketFault /\ pc' = "requeue"
    /\ UNCHANGED <<reader, is_connected, connect_cb, auto_reconnect, retrans,
                   num_retries, failed, app, expiries>>

-----------------------------------------------------------------------------
(* Reading.                                                                *)

\* Fault: the command leaves its chain and is still counted.
MutantFindKeepsLen(p, hash) ==
    /\ outqueue' \in rpc_remove_pdu_from_queue(outqueue, {p})
    /\ waitpdu' = waitpdu \ {p}
    /\ UNCHANGED waitpdu_len

\* Fault: a command found on outqueue is discounted too.
MutantFindDiscounts(p, hash) ==
    /\ outqueue' \in rpc_remove_pdu_from_queue(outqueue, {p})
    /\ waitpdu' = waitpdu \ {p}
    /\ waitpdu_len' = waitpdu_len - 1

\* rpc_find_pdu on a TCP context: outqueue first, then one chain.
rpc_find_pdu(p, hash) ==
    \/ /\ p \in Elems(outqueue)
       /\ outqueue' \in rpc_remove_pdu_from_queue(outqueue, {p})
       /\ UNCHANGED <<waitpdu, waitpdu_len>>
    \/ /\ p \notin Elems(outqueue)
       /\ p \in waitpdu /\ HashXid[p] = hash
       /\ waitpdu' = waitpdu \ {p}
       /\ waitpdu_len' = waitpdu_len - 1
       /\ UNCHANGED outqueue

\* Would rpc_find_pdu find p?
Findable(p, hash) == p \in Elems(outqueue) \/ (p \in waitpdu /\ HashXid[p] = hash)

\* The record marker and xid of a reply to p have arrived.
ReadRecordMarker(p) ==
    /\ pc = "idle"
    /\ fd = "up"
    /\ state = "READ_RM"
    /\ server[p] > 0
    /\ server' = [server EXCEPT ![p] = @ - 1]
    /\ rm_hash' = HashXid[p]
    /\ IF Findable(p, HashXid[p])
       THEN /\ rpc_find_pdu(p, HashXid[p])
            /\ pdu' = p
            /\ state' = "READ_PAYLOAD"
       ELSE /\ pdu' = NULL
            /\ state' = "READ_UNKNOWN"
            /\ UNCHANGED <<outqueue, waitpdu, waitpdu_len>>
    /\ UNCHANGED <<num_done, conn, pc, app, halfsent, faults, expiries>>

\* The same, but adjust_inbuf cannot allocate: the command goes back to
\* outqueue and the read fails.
ReadNoMemory(p) ==
    /\ pc = "idle"
    /\ fd = "up"
    /\ state = "READ_RM"
    /\ server[p] > 0
    /\ Fault
    /\ pc' = "requeue"
    /\ server' = [server EXCEPT ![p] = @ - 1]
    /\ rm_hash' = HashXid[p]
    /\ state' = "READ_PAYLOAD"
    /\ IF Findable(p, HashXid[p])
       THEN /\ \E q \in rpc_remove_pdu_from_queue(outqueue, {p}) :
                    outqueue' = rpc_return_to_outqueue(q, p)
            /\ num_done' = ResetDone({p})
            /\ waitpdu' = waitpdu \ {p}
            /\ waitpdu_len' = waitpdu_len - (IF p \in waitpdu THEN 1 ELSE 0)
       ELSE UNCHANGED queues
    /\ UNCHANGED <<pdu, conn, app, halfsent, expiries>>

\* recv fails or returns 0, or the record marker is one that is refused
\* (a fragment, a bad size); its xid is left in network byte order, with any hash.
ReadFails ==
    /\ pc = "idle"
    /\ is_connected
    /\ pc' = "requeue"
    /\ \/ SocketFault /\ UNCHANGED <<state, rm_hash>>
       \/ /\ fd = "up" /\ Fault /\ UNCHANGED fd
          /\ state = "READ_RM"
          /\ state' \in {"READ_PAYLOAD", "READ_FRAGMENT"}
          /\ \E p \in Pdus : rm_hash' = HashXid[p]
    /\ UNCHANGED <<queues, pdu, is_connected, connect_cb, auto_reconnect, retrans,
                   num_retries, failed, app, wire, expiries>>

\* A reply to an unknown or cancelled command is skipped.
ReadUnknown ==
    /\ pc = "idle"
    /\ fd = "up"
    /\ state = "READ_UNKNOWN"
    /\ state' = "READ_RM"
    /\ UNCHANGED <<queues, pdu, rm_hash, conn, pc, app, wire, faults,
                   expiries>>

\* The reply is finished: the callback runs with the given status (called by
\* rpc_process_reply or, for a zero-copy READ, by rpc_finished_pdu) and the
\* command is freed.
rpc_finished_pdu(status) ==
    /\ cbs' = Called({pdu}, status)
    /\ life' = Freed({pdu})
    /\ state' = "READ_RM"
    /\ pdu' = NULL
    /\ UNCHANGED pc

\* The reply is complete up to the data of a zero-copy READ; rpc_process_reply
\* runs.  A reply is
\*   "ok":     accepted, with the result;
\*   "nfserr": accepted, the result of a READ says that it failed;
\*   "rpcerr": denied, or accepted with PROG_UNAVAIL ... SYSTEM_ERR.
ReadPayload(kind) ==
    /\ pc = "idle"
    /\ fd = "up"
    /\ state = "READ_PAYLOAD"
    /\ pdu # NULL
    /\ \/ \* an ordinary command
          /\ pdu \notin ZeroCopy
          /\ kind # "nfserr"
          /\ rpc_finished_pdu(IF kind = "ok" THEN "SUCCESS" ELSE "ERROR")
          /\ UNCHANGED faults
       \/ \* a zero-copy READ with all its data in the first ZCRP bytes, or an
          \* NFSv3 READ that failed
          /\ pdu \in ZeroCopy
          /\ kind = "ok" \/ (kind = "nfserr" /\ NfsVersion = 3)
          /\ rpc_finished_pdu("SUCCESS")
          /\ UNCHANGED faults
       \/ \* a zero-copy READ with more data to come
          /\ pdu \in ZeroCopy
          /\ kind = "ok"
          /\ state' = "READ_IOVEC"
          /\ UNCHANGED <<pdu, pc, life, cbs, faults>>
       \/ \* an NFSv4 READ that failed: there is no data length to decode
          /\ pdu \in ZeroCopy
          /\ kind = "nfserr" /\ NfsVersion = 4
          /\ pc' = "requeue"
          /\ UNCHANGED <<pdu, state, life, cbs, faults>>
       \/ \* an error reply to a READ: called back by rpc_process_reply, and
          \* then there is no data length to decode
          /\ pdu \in ZeroCopy
          /\ kind = "rpcerr"
          /\ Fault
          /\ cbs' = Called({pdu}, "ERROR")
          /\ pc' = "requeue"
          /\ UNCHANGED <<pdu, state, life>>
    /\ UNCHANGED <<queues, rm_hash, conn, asked, wire, expiries>>

\* The rest of the data of a zero-copy READ, and the padding behind it.
ReadData ==
    /\ pc = "idle"
    /\ fd = "up"
    /\ \/ /\ state = "READ_IOVEC"
          /\ state' = "READ_PADDING"
          /\ UNCHANGED <<pdu, pc, life, cbs>>
       \/ /\ state \in {"READ_IOVEC", "READ_PADDING"}
          /\ rpc_finished_pdu("SUCCESS")
    /\ UNCHANGED <<queues, rm_hash, conn, asked, wire, faults, expiries>>

-----------------------------------------------------------------------------
(* Timeouts and reconnects.                                                *)

Retried(p) == p \notin DoNotRetry /\ retrans > 0

\* One rpc_timeout_scan: the commands X of outqueue and Y of waitpdu[] are
\* found expired.  A command that may be retried keeps its place in outqueue,
\* or is sent again; the others complete with a timeout.  A major timeout of a
\* retried command may call for a reconnect.
rpc_timeout_scan(X, Y) ==
    LET given_up == {p \in X \cup Y : ~Retried(p)}
        resent   == {p \in Y : Retried(p)}
    IN  /\ pc = "idle"
        /\ X \subseteq Elems(outqueue) /\ Y \subseteq waitpdu
        /\ given_up \cup resent # {}
        /\ expiries + Cardinality(given_up \cup resent) <= MaxExpiries
        /\ expiries' = expiries + Cardinality(given_up \cup resent)
        /\ \E q \in rpc_remove_pdu_from_queue(outqueue, given_up) :
                outqueue' \in ReturnAll(q, resent)
        /\ num_done' = ResetDone(resent)
        /\ waitpdu' = waitpdu \ Y
        /\ waitpdu_len' = waitpdu_len - Cardinality(Y)
        /\ cbs' = Called(given_up, "TIMEOUT")
        /\ life' = Freed(given_up)
        /\ \/ UNCHANGED pc
           \/ resent # {} /\ pc' = "requeue"
        /\ UNCHANGED <<reader, conn, asked, wire, faults>>

\* The whole of rpc_reconnect_requeue.  When reconnect_cb calls it its result is
\* lost and rpc_service returns -1.
rpc_reconnect_requeue ==
    /\ pc \in {"requeue", "requeue_cb"}
    /\ pc' = "idle"
    /\ UNCHANGED <<rm_hash, auto_reconnect, retrans, asked, expiries>>
    /\ \/ /\ auto_reconnect = 0
          /\ rpc_purge_all_pdus(outqueue, waitpdu, "ERROR")
          /\ failed' = TRUE
          /\ UNCHANGED <<num_done, waitpdu_len, pdu, state, fd, is_connected,
                         connect_cb, num_retries, wire, faults>>
       \/ LET retries == IF is_connected THEN auto_reconnect ELSE num_retries
              moved == waitpdu \cup ({pdu} \ {NULL})
              head == IF outqueue = <<>> THEN {} ELSE {Head(outqueue)}
          IN /\ auto_reconnect # 0
             /\ is_connected' = FALSE
             /\ num_done' = ResetDone(moved \cup head)
             /\ state' = "READ_RM"
             /\ pdu' = NULL
             /\ waitpdu_len' = 0
             /\ FreshWire
             /\ \E q \in ReturnAll(outqueue, waitpdu) :
                 LET all == IF pdu = NULL THEN q ELSE rpc_return_to_outqueue(q, pdu)
                 IN \/ /\ auto_reconnect < 0 \/ retries > 0
                       /\ num_retries' = retries - 1
                       /\ connect_cb' = "reconnect"
                       /\ \/ /\ fd' = "connecting"
                             /\ outqueue' = all
                             /\ waitpdu' = {}
                             /\ failed' = (pc = "requeue_cb")
                             /\ UNCHANGED <<life, cbs, faults>>
                          \/ \* rpc_connect_sockaddr_async fails
                             /\ Fault
                             /\ fd' \in {"none", "dead"}
                             /\ failed' = TRUE
                             /\ rpc_purge_all_pdus(all, {}, "ERROR")
                    \/ /\ auto_reconnect > 0 /\ retries <= 0
                       /\ fd' = "none"
                       /\ failed' = TRUE
                       /\ num_retries' = retries
                       /\ rpc_purge_all_pdus(all, {}, "ERROR")
                       /\ UNCHANGED <<connect_cb, faults>>

-----------------------------------------------------------------------------
(* Calls of the application that end commands.                             *)

\* rpc_cancel_pdu looks on the chain of the last xid read.
rpc_cancel_pdu(p) ==
    /\ pc = "idle"
    /\ life[p] = "live"
    /\ p \in Cancellable \ asked
    /\ asked' = asked \cup {p}
    /\ IF Findable(p, rm_hash)
       THEN rpc_find_pdu(p, rm_hash) /\ life' = Freed({p})
       ELSE UNCHANGED <<outqueue, waitpdu, waitpdu_len, life>>
    /\ UNCHANGED <<num_done, reader, conn, pc, cbs, wire, faults, expiries>>

MayEnd == MayTeardown /\ (TeardownMidReply \/ state = "READ_RM")

rpc_disconnect ==
    /\ pc = "idle"
    /\ MayEnd
    /\ fd # "none" \/ is_connected
    /\ fd' = "none"
    /\ FreshWire
    /\ IF is_connected
       THEN /\ auto_reconnect' = 0
            /\ retrans' = 0
            /\ is_connected' = FALSE
            /\ connect_cb' = "none"
            /\ rpc_purge_all_pdus(outqueue, waitpdu, "ERROR")
       ELSE UNCHANGED <<auto_reconnect, retrans, is_connected, connect_cb,
                        outqueue, waitpdu, cbs, life>>
    /\ UNCHANGED <<num_done, waitpdu_len, reader, num_retries, failed, pc, asked,
                   faults, expiries>>

rpc_destroy_context ==
    /\ pc = "idle"
    /\ MayEnd
    /\ pc' = "destroyed"
    /\ rpc_purge_all_pdus(outqueue, waitpdu, "CANCEL")
    /\ fd' = "none"
    /\ FreshWire
    /\ UNCHANGED <<num_done, waitpdu_len, reader, is_connected, connect_cb,
                   auto_reconnect, retrans, num_retries, failed, asked, faults,
                   expiries>>

-----------------------------------------------------------------------------
Read ==
    \/ \E p \in Pdus : ReadRecordMarker(p)
    \/ ReadUnknown
    \/ \E kind \in ReplyKinds : ReadPayload(kind)
    \/ ReadData

Next ==
    \/ rpc_connect_async
    \/ rpc_set_resiliency
    \/ ServiceConnected
    \/ ServiceSocketError
    \/ ServiceConnectFailed
    \/ \E p \in Pdus : rpc_queue_pdu(p)
    \/ ServiceWrite
    \/ Read
    \/ \E p \in Pdus : ReadNoMemory(p)
    \/ ReadFails
    \/ \E X \in SUBSET Elems(outqueue), Y \in SUBSET waitpdu : rpc_timeout_scan(X, Y)
    \/ rpc_reconnect_requeue
    \/ \E p \in Pdus : rpc_cancel_pdu(p)
    \/ rpc_disconnect
    \/ rpc_destroy_context

Spec == Init /\ [][Next]_vars

\* The application keeps polling: it connects, and rpc_service is called when
\* the socket is connected, broken, readable or writable.  The network takes
\* the bytes of a record in the end and the server answers every request.
Fairness ==
    /\ WF_vars(rpc_connect_async)
    /\ WF_vars(ServiceConnected)
    /\ WF_vars(ServiceSocketError /\ fd = "dead")
    /\ WF_vars(ServiceWrite /\ outqueue' # outqueue /\ pc' = "idle")
    /\ WF_vars(Read)
    /\ WF_vars(rpc_reconnect_requeue)

FairSpec == Spec /\ Fairness

-----------------------------------------------------------------------------
(* Properties.                                                             *)

TypeQueues ==
    /\ outqueue \in Seq(Pdus)
    /\ num_done \in [Pdus -> 0..RecordSize]
    /\ waitpdu \subseteq Pdus
    /\ waitpdu_len \in Nat

TypeReader ==
    /\ pdu \in Pdus \cup {NULL}
    /\ state \in InputState
    /\ rm_hash \in Nat

TypeFlags == is_connected \in BOOLEAN /\ failed \in BOOLEAN

TypeConn ==
    /\ fd \in {"none", "connecting", "up", "dead"}
    /\ connect_cb \in {"none", "user", "reconnect"}
    /\ auto_reconnect \in Int /\ retrans \in Nat /\ num_retries \in Int
    /\ pc \in {"idle", "requeue", "requeue_cb", "destroyed"}

TypeApp ==
    /\ life \in [Pdus -> {"unused", "live", "freed"}]
    /\ cbs \in [Pdus -> Seq(Status)]
    /\ asked \subseteq Pdus

TypeWire ==
    /\ halfsent \in Pdus \cup {NULL}
    /\ server \in [Pdus -> Nat]

\* Every field holds a value of its C type; waitpdu_len never wraps below zero
\* (it is unsigned in struct rpc_context).
TypeOK ==
    /\ TypeQueues /\ TypeReader /\ TypeFlags /\ TypeConn /\ TypeApp /\ TypeWire
    /\ faults \in Nat /\ expiries \in Nat

\* A command is in exactly one place from rpc_queue_pdu until it is freed, and
\* in none before and after: no command is lost, linked twice or used after
\* rpc_free_pdu, whatever mix of writes, replies, timeouts, reconnects,
\* cancellations and disconnects it goes through.
OnePlace ==
    /\ \A i, j \in DOMAIN outqueue : outqueue[i] = outqueue[j] => i = j
    /\ Elems(outqueue) \cap waitpdu = {}
    /\ pdu \notin Elems(outqueue) \cup waitpdu
    /\ {p \in Pdus : life[p] = "live"} =
            Elems(outqueue) \cup waitpdu \cup ({pdu} \ {NULL})

\* A command's callback runs at most once, and only a cancelled command is
\* freed without it.
CallbackOnce ==
    \A p \in Pdus :
        /\ Len(cbs[p]) <= 1
        /\ life[p] # "freed" => cbs[p] = <<>>
        /\ life[p] = "freed" /\ cbs[p] = <<>> => p \in asked

\* The transport keeps the promise of RpcCommands to the application: life and
\* cbs change only as its actions say.
Commands == INSTANCE RpcCommands
RefinesCommands == Commands!CommandsSpec

\* The bytes on a connection are whole records one after the other: while a
\* record is half written its command stays at the head of outqueue, no other
\* queued command is partly sent, and none is fully sent (the assertion of
\* rpc_write_to_socket).  A context that rpc_service has given up is exempt.
StreamIntact ==
    ~failed =>
        /\ halfsent # NULL => outqueue # <<>> /\ Head(outqueue) = halfsent
        /\ \A p \in Elems(outqueue) :
                /\ num_done[p] > 0 => p = halfsent
                /\ num_done[p] < RecordSize

\* rpc_get_num_awaiting counts the commands that await a reply.  Only a purge, which
\* empties the chains and leaves waitpdu_len alone, lets the counter run ahead of them:
\* writing, replies, retransmission, cancellation and reconnecting keep it in step.
AwaitingExact ==
    [][(outqueue' # <<>> \/ waitpdu' # {}) =>
            waitpdu_len' - Cardinality(waitpdu') <= waitpdu_len - Cardinality(waitpdu)]_vars

\* However the chains are emptied, the counter never falls below the number of
\* waiting commands, so a limit is never exceeded and the counter never wraps.
AwaitingCovers ==
    /\ waitpdu_len >= Cardinality(waitpdu)
    /\ MaxWaitpduLen # 0 => Cardinality(waitpdu) <= MaxWaitpduLen

\* rpc_disconnect on a connection that is up calls back every command in flight.
DisconnectStep == pc = "idle" /\ pc' = "idle" /\ fd # "none" /\ fd' = "none"
DisconnectCompletesWhenUp ==
    [][DisconnectStep /\ is_connected => \A p \in Pdus : life'[p] # "live"]_vars

\* Every command completes, or rpc_service reports that the context has failed.
CommandsComplete ==
    \A p \in Pdus : life[p] = "live" ~> (life[p] = "freed" \/ failed)
=============================================================================
