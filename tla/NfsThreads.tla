----------------------------- MODULE NfsThreads -----------------------------
(***************************************************************************)
(* One nfs_context used by several threads (lib/multithreading.c with      *)
(* pthreads): the service thread does the socket I/O and runs the          *)
(* callbacks, the application's threads make synchronous calls and sleep   *)
(* on a semaphore.  What is modelled is where the threads meet: rpc_mutex, *)
(* nfs4_open_call_mutex, the semaphores, the list of thread contexts, and  *)
(* the accesses to the queues that are made without rpc_mutex.             *)
(*                                                                         *)
(* A critical section of rpc_mutex is one step, except the two in which a  *)
(* thread that does not hold the mutex can interfere: rpc_write_to_socket, *)
(* against the reset of num_done in rpc_reconnect_requeue, and the first   *)
(* loop of rpc_purge_all_pdus, which runs callbacks that lock it again.    *)
(* A thread has one call at a time, so its PDU is named by the thread.     *)
(***************************************************************************)
EXTENDS Naturals, Sequences, Functions, FiniteSets

CONSTANTS
  Threads,        \* the application's threads
  Openers,        \* those whose calls are nfs_open, nfs_close or nfs_truncate of NFSv4
  MaxCalls,       \* calls made by each thread
  MaxHangups,     \* times the server closes the connection
  MaxLate,        \* PDUs that time out although there is a connection
  ShortWrites     \* writev() may accept a part of a PDU only

ASSUME ThreadsAssumption ==
  /\ IsFiniteSet(Threads) /\ Openers \subseteq Threads
  /\ {"service", "free"} \cap Threads = {}
  /\ MaxCalls \in Nat /\ MaxHangups \in Nat /\ MaxLate \in Nat
  /\ ShortWrites \in BOOLEAN

Svc == "service"
Free == "free"
NoStatus == <<>>
Failed == <<"error">>
Size == 2                   \* parts of a PDU that one writev() can separate

VARIABLES
  pc,           \* [Threads -> where the thread is in its call]
  made,         \* [Threads -> calls begun]
  xid,          \* rpc->xid
  pxid,         \* [Threads -> pdu->xid]
  sem,          \* [Threads -> value of cb_data->wait_sem]
  got,          \* [Threads -> cb_data->status: the call it answers, or an error]
  ctx,          \* nfsi->thread_ctx: the list of thread ids, newest first
  rpc_mutex, nfs4_open_call_mutex,    \* Free or the thread that holds it
  outqueue, waitpdu, num_done,        \* num_done is that of the head of outqueue
  written,      \* [Threads \cup {Svc} -> what its last writev() returned]
  conn,         \* the socket: "up", "closing" (closed by the server, not noticed yet),
                \* "closed" (rpc->fd = -1) or "connecting"
  num_retries,  \* reconnect attempts left
  spc, todo,    \* the service thread, and the PDUs it is about to complete
  stream, replies, hangups,     \* the connection and the server
  late          \* PDUs timed out so far while connected

appVars == <<pc, made, pxid, got, sem, ctx>>
queueVars == <<outqueue, waitpdu, num_done>>
connVars == <<conn, num_retries, stream, replies, hangups>>
vars == <<appVars, xid, rpc_mutex, nfs4_open_call_mutex, queueVars, written, connVars,
          spc, todo, late>>

Init ==
  /\ pc = [t \in Threads |-> "idle"] /\ made = [t \in Threads |-> 0]
  /\ xid = 1 /\ pxid = [t \in Threads |-> 0]
  /\ sem = [t \in Threads |-> 0] /\ got = [t \in Threads |-> NoStatus]
  /\ ctx = <<>> /\ rpc_mutex = Free /\ nfs4_open_call_mutex = Free
  /\ outqueue = <<>> /\ waitpdu = {} /\ num_done = 0
  /\ written = [a \in Threads \cup {Svc} |-> 0]
  /\ conn = "up" /\ num_retries = 1
  /\ spc = "off" /\ todo = <<>>
  /\ stream = <<>> /\ replies = <<>> /\ hangups = 0 /\ late = 0

-----------------------------------------------------------------------------
(***************************************************************************)
(* PTHREAD_MUTEX_ERRORCHECK.  The callers ignore what lock and unlock      *)
(* return: EDEADLK when the thread holds the mutex, EPERM when it does not.*)
(***************************************************************************)
CanLock(mutex, a) == mutex \in {Free, a}

Unlocked(mutex, a) == IF mutex = a THEN Free ELSE mutex

\* A critical section of thread a that nothing can interfere with.
Locked(a) == rpc_mutex = Free /\ UNCHANGED rpc_mutex

-----------------------------------------------------------------------------
(***************************************************************************)
(* A call of thread t: nfs_init_cb_data, nfs_xxx_async, wait_for_nfs_reply *)
(***************************************************************************)
Goto(t, l) == pc' = [pc EXCEPT ![t] = l]

\* Where a call continues once it has its semaphore.
AfterInit(t) == IF t \in Openers THEN "open" ELSE "allocate"

\* Mutant: the search is not done, a thread always adds a context.
find_thread_context_Mutant(t) == FALSE

\* The list is searched without the mutex.
find_thread_context(t) == t \in Range(ctx)

nfs_init_cb_data(t) ==
  /\ spc # "off" /\ pc[t] = "idle" /\ made[t] < MaxCalls
  /\ made' = [made EXCEPT ![t] = @ + 1]
  /\ sem' = [sem EXCEPT ![t] = 0] /\ got' = [got EXCEPT ![t] = NoStatus]
  /\ Goto(t, IF find_thread_context(t) THEN AfterInit(t) ELSE "context")
  /\ UNCHANGED <<pxid, ctx, xid, rpc_mutex, nfs4_open_call_mutex, queueVars, written,
                 connVars, spc, todo, late>>

add_thread_context(t) ==
  /\ pc[t] = "context" /\ Locked(t)
  /\ ctx' = <<t>> \o ctx
  /\ Goto(t, AfterInit(t))
  /\ UNCHANGED <<made, pxid, got, sem, xid, nfs4_open_call_mutex, queueVars, written,
                 connVars, spc, todo, late>>

\* nfs4_open_async, nfs4_close_async, nfs4_truncate_async.
lock_open_call(t) ==
  /\ pc[t] = "open" /\ CanLock(nfs4_open_call_mutex, t)
  /\ nfs4_open_call_mutex' = t
  /\ Goto(t, "allocate")
  /\ UNCHANGED <<made, pxid, got, sem, ctx, xid, rpc_mutex, queueVars, written, connVars,
                 spc, todo, late>>

\* Mutant: the counter is read but not advanced.
next_xid_Mutant(x) == x

next_xid(x) == x + 1

rpc_allocate_pdu(t) ==
  /\ pc[t] = "allocate" /\ Locked(t)
  /\ pxid' = [pxid EXCEPT ![t] = xid] /\ xid' = next_xid(xid)
  /\ Goto(t, "queue")
  /\ UNCHANGED <<made, got, sem, ctx, nfs4_open_call_mutex, queueVars, written, connVars,
                 spc, todo, late>>

rpc_queue_pdu(t) ==
  /\ pc[t] = "queue" /\ Locked(t)
  /\ outqueue' = Append(outqueue, t)
  /\ Goto(t, "head")
  /\ UNCHANGED <<made, pxid, got, sem, ctx, xid, nfs4_open_call_mutex, waitpdu, num_done,
                 written, connVars, spc, todo, late>>

\* The PDU has been freed.
Gone(t) == t \notin Range(outqueue) \cup waitpdu \cup Range(todo)

\* The values `outqueue.head == pdu' can have, read after the mutex was released.  When
\* the PDU has been completed and freed, another one may have its address.
HeadIsPdu(t) ==
  IF outqueue = <<>> THEN {FALSE}
  ELSE IF Gone(t) THEN BOOLEAN ELSE {Head(outqueue) = t}

\* The end of rpc_queue_pdu, and the test of rpc->fd in rpc_write_to_socket.
read_head(t) ==
  /\ pc[t] = "head"
  /\ \E b \in HeadIsPdu(t) : Goto(t, IF b /\ conn # "closed" THEN "write" ELSE "wait")
  /\ UNCHANGED <<made, pxid, got, sem, ctx, xid, rpc_mutex, nfs4_open_call_mutex,
                 queueVars, written, connVars, spc, todo, late>>

wait_for_nfs_reply(t) ==
  /\ pc[t] = "wait" /\ sem[t] > 0
  /\ sem' = [sem EXCEPT ![t] = @ - 1]
  /\ Goto(t, "idle")
  /\ UNCHANGED <<made, pxid, got, ctx, xid, rpc_mutex, nfs4_open_call_mutex, queueVars,
                 written, connVars, spc, todo, late>>

-----------------------------------------------------------------------------
(***************************************************************************)
(* rpc_write_to_socket, by an application's thread or the service thread   *)
(***************************************************************************)
At(a, l) == IF a = Svc THEN spc = l ELSE pc[a] = l

GotoW(a, l) ==
  IF a = Svc THEN spc' = l /\ UNCHANGED pc ELSE Goto(a, l) /\ UNCHANGED spc

\* Where a thread goes after the write.
AfterWrite(a) == IF a = Svc THEN "poll" ELSE "wait"

\* The call a thread is making.
Call(t) == <<t, made[t]>>

\* The parts of the PDUs in outqueue, numbered from the head's first.
Part(j) ==
  LET t == outqueue[((j - 1) \div Size) + 1]
  IN  [call |-> Call(t), xid |-> pxid[t], part |-> ((j - 1) % Size) + 1]
Unsent == [i \in 1..(Size * Len(outqueue) - num_done) |-> Part(num_done + i)]

\* Mutant: the mutex is released before the count is accounted for.
Writer_Mutant(a) == Free

\* Who holds the mutex from writev() to the end of the accounting.
Writer(a) == a

\* lock, and writev() of the queue.  On a socket that is closed or not connected yet
\* it fails, which both callers survive: the PDUs stay in outqueue.  What is written to
\* a connection the server has closed is lost with it.
writev(a) ==
  /\ At(a, "write") /\ rpc_mutex = Free
  /\ IF outqueue = <<>> \/ conn \notin {"up", "closing"}
     THEN /\ GotoW(a, AfterWrite(a))
          /\ UNCHANGED <<rpc_mutex, written, stream>>
     ELSE /\ rpc_mutex' = Writer(a)
          /\ \E n \in IF ShortWrites THEN 1..Len(Unsent) ELSE {Len(Unsent)} :
               /\ written' = [written EXCEPT ![a] = n]
               /\ stream' = stream \o SubSeq(Unsent, 1, n)
          /\ GotoW(a, "account")
  /\ UNCHANGED <<made, pxid, got, sem, ctx, xid, nfs4_open_call_mutex, queueVars, conn,
                 num_retries, replies, hangups, todo, late>>

\* How many PDUs the loop over the count completes.
Completed(n) == (num_done + n) \div Size

\* Mutant: the count of a PDU that is complete stays with the next one.
Remaining_Mutant(n) == num_done + n

\* What it leaves done of the next.
Remaining(n) == (num_done + n) % Size

\* The accounting of what was written, and unlock.
account(a) ==
  LET k == Completed(written[a])
  IN  /\ At(a, "account")
      /\ waitpdu' = waitpdu \cup {outqueue[i] : i \in 1..k}
      /\ outqueue' = SubSeq(outqueue, k + 1, Len(outqueue))
      /\ num_done' = Remaining(written[a])
      /\ written' = [written EXCEPT ![a] = 0]
      /\ rpc_mutex' = Unlocked(rpc_mutex, a)
      /\ GotoW(a, AfterWrite(a))
      /\ UNCHANGED <<made, pxid, got, sem, ctx, xid, nfs4_open_call_mutex, connVars, todo, late>>

-----------------------------------------------------------------------------
(***************************************************************************)
(* The service thread                                                      *)
(***************************************************************************)
GotoS(l) == spc' = l

\* nfs_mt_service_thread_start returns when the thread has set multithreading_enabled.
nfs_mt_service_thread_start ==
  /\ spc = "off" /\ \A t \in Threads : made[t] = 0
  /\ GotoS("poll")
  /\ UNCHANGED <<appVars, xid, rpc_mutex, nfs4_open_call_mutex, queueVars, written,
                 connVars, todo, late>>

\* The application stops the thread when its calls are over (README.multithreading);
\* the thread leaves its loop at the next test, and is joined.
nfs_mt_service_thread_stop ==
  /\ spc = "poll" /\ \A t \in Threads : pc[t] = "idle" /\ made[t] = MaxCalls
  /\ GotoS("off")
  /\ UNCHANGED <<appVars, xid, rpc_mutex, nfs4_open_call_mutex, queueVars, written,
                 connVars, todo, late>>

\* rpc_find_pdu: the PDU of an xid, in outqueue first.
WithXid(S, x) == {t \in S : pxid[t] = x}
Found(x) ==
  IF WithXid(Range(outqueue), x) # {} THEN WithXid(Range(outqueue), x)
  ELSE WithXid(waitpdu, x)

\* The PDU at place i is unlinked; a PDU that is not in the queue is left where it is.
Unlinked(q, i) == SubSeq(q, 1, i - 1) \o SubSeq(q, i + 1, Len(q))
rpc_remove_pdu_from_queue(q, t) ==
  IF t \in Range(q) THEN Unlinked(q, CHOOSE i \in DOMAIN q : q[i] = t) ELSE q

\* The chains of rpc->waitpdu[], walked one after the other: some order of S.
Walked(S) == CHOOSE q \in [1..Cardinality(S) -> S] : IsInjective(q)

\* POLLIN: the next reply is read and its PDU taken off its queue; a reply nobody waits
\* for is dropped.
rpc_read_from_socket ==
  /\ spc = "poll" /\ conn = "up" /\ replies # <<>> /\ Locked(Svc)
  /\ replies' = Tail(replies)
  /\ LET r == Head(replies)
     IN  IF Found(r.xid) = {}
         THEN UNCHANGED <<spc, todo, queueVars, got>>
         ELSE \E t \in Found(r.xid) :
                /\ todo' = <<t>> /\ GotoS("reply")
                /\ outqueue' = rpc_remove_pdu_from_queue(outqueue, t)
                /\ num_done' = IF outqueue # <<>> /\ Head(outqueue) = t THEN 0 ELSE num_done
                /\ waitpdu' = waitpdu \ {t}
                /\ got' = [got EXCEPT ![t] = r.of]
  /\ UNCHANGED <<pc, made, pxid, sem, ctx, xid, nfs4_open_call_mutex, written, conn,
                 num_retries, stream, hangups, late>>

\* Mutant: the thread is woken only if it already sleeps.
sem_post_Mutant(t) == [sem EXCEPT ![t] = IF pc[t] = "wait" THEN @ + 1 ELSE @]

sem_post(t) == [sem EXCEPT ![t] = @ + 1]

\* The callback of a PDU, up to cb_data_is_finished and free_nfs4_cb_data, which unlocks
\* nfs4_open_call_mutex when the call locked it (MUTEX_HELD).
cb_data_is_finished(t) ==
  /\ sem' = sem_post(t)
  /\ todo' = Tail(todo)
  /\ nfs4_open_call_mutex' =
       IF t \in Openers THEN Unlocked(nfs4_open_call_mutex, Svc) ELSE nfs4_open_call_mutex

rpc_process_reply ==
  /\ spc = "reply"
  /\ cb_data_is_finished(Head(todo))
  /\ GotoS("poll")
  /\ UNCHANGED <<pc, made, pxid, got, ctx, xid, rpc_mutex, queueVars, written, connVars, late>>

\* Mutant: POLLOUT is asked for only while connecting.
HasQueue_Mutant == FALSE

HasQueue == outqueue # <<>>

\* POLLOUT with something to send.
rpc_which_events ==
  /\ spc = "poll" /\ conn = "up" /\ HasQueue /\ rpc_mutex = Free
  /\ GotoS("write")
  /\ UNCHANGED <<appVars, xid, rpc_mutex, nfs4_open_call_mutex, queueVars, written,
                 connVars, todo, late>>

\* The PDUs whose timeout can have passed: a PDU that cannot be sent, or one that the
\* server is slow to answer.
Expired == IF conn = "closed" THEN Range(outqueue)
           ELSE IF late < MaxLate THEN Range(outqueue) \cup waitpdu ELSE {}

\* A PDU whose time has passed is taken off its queue under the mutex, which stays locked
\* while its callback runs (rpc->retrans is 0: it is not sent again).
rpc_timeout_scan ==
  /\ spc = "poll" /\ rpc_mutex = Free
  /\ \E t \in Expired :
       /\ todo' = <<t>> /\ got' = [got EXCEPT ![t] = Failed]
       /\ outqueue' = rpc_remove_pdu_from_queue(outqueue, t) /\ waitpdu' = waitpdu \ {t}
       /\ num_done' = IF outqueue # <<>> /\ Head(outqueue) = t THEN 0 ELSE num_done
  /\ late' = IF conn = "closed" THEN late ELSE late + 1
  /\ rpc_mutex' = Svc /\ GotoS("expired")
  /\ UNCHANGED <<pc, made, pxid, sem, ctx, xid, nfs4_open_call_mutex, written, connVars>>

\* rpc_reconnect_requeue up to the loop over waitpdu: the socket is given up, and the
\* head of outqueue starts again.  Neither is done under the mutex.
rpc_reconnect_requeue ==
  /\ conn = "closing" /\ spc = "poll"
  /\ conn' = "closed" /\ num_retries' = 1
  /\ num_done' = 0
  /\ stream' = <<>> /\ replies' = <<>>
  /\ GotoS("requeue")
  /\ UNCHANGED <<appVars, xid, rpc_mutex, nfs4_open_call_mutex, outqueue, waitpdu, written,
                 hangups, todo, late>>

\* rpc_return_to_outqueue, for all of waitpdu: behind the head.
Requeued(q, S) ==
  LET s == Walked(S)
  IN  IF q = <<>> THEN s ELSE <<Head(q)>> \o s \o Tail(q)

\* The rest of it: waitpdu returns to outqueue and a connection is tried, or, with no
\* attempt left, every PDU fails.
requeue_waitpdu ==
  /\ spc = "requeue" /\ Locked(Svc)
  /\ outqueue' = Requeued(outqueue, waitpdu) /\ waitpdu' = {}
  /\ IF num_retries > 0
     THEN num_retries' = num_retries - 1 /\ conn' = "connecting" /\ GotoS("poll")
     ELSE UNCHANGED <<num_retries, conn>> /\ GotoS("purge")
  /\ UNCHANGED <<appVars, xid, nfs4_open_call_mutex, num_done, written, stream, replies,
                 hangups, todo, late>>

reconnect_cb ==
  /\ spc = "poll" /\ conn = "connecting"
  /\ \/ conn' = "up" /\ UNCHANGED <<spc, num_done>>
     \/ conn' = "closed" /\ num_done' = 0 /\ GotoS("requeue")
  /\ UNCHANGED <<appVars, xid, rpc_mutex, nfs4_open_call_mutex, outqueue, waitpdu, written,
                 num_retries, stream, replies, hangups, todo, late>>

-----------------------------------------------------------------------------
(***************************************************************************)
(* rpc_purge_all_pdus, called by the service thread                        *)
(***************************************************************************)
\* outqueue is emptied into a local list, under the mutex, which stays locked.
purge_outqueue ==
  /\ spc = "purge" /\ rpc_mutex = Free
  /\ rpc_mutex' = Svc
  /\ todo' = outqueue /\ outqueue' = <<>> /\ num_done' = 0
  /\ got' = [t \in Threads |-> IF t \in Range(outqueue) THEN Failed ELSE got[t]]
  /\ GotoS("purging")
  /\ UNCHANGED <<pc, made, pxid, sem, ctx, xid, nfs4_open_call_mutex, waitpdu, written,
                 connVars, late>>

\* A callback, of a purge or of rpc_timeout_scan.  It sets the error of its context:
\* nfs_set_error locks rpc_mutex, which its caller already holds, and unlocks it.
purge_callback ==
  /\ spc \in {"purging", "purging2", "expired"} /\ todo # <<>>
  /\ CanLock(rpc_mutex, Svc)
  /\ rpc_mutex' = Free
  /\ cb_data_is_finished(Head(todo))
  /\ UNCHANGED <<pc, made, pxid, got, ctx, xid, queueVars, written, connVars, spc, late>>

\* The unlock at the end of the first loop, or of rpc_timeout_scan.
purge_unlock ==
  /\ spc \in {"purging", "expired"} /\ todo = <<>>
  /\ rpc_mutex' = Unlocked(rpc_mutex, Svc)
  /\ GotoS(IF spc = "purging" THEN "purge2" ELSE "poll")
  /\ UNCHANGED <<appVars, xid, nfs4_open_call_mutex, queueVars, written, connVars, todo, late>>

\* The same for waitpdu, whose callbacks run without the mutex.
purge_waitpdu ==
  /\ spc = "purge2" /\ Locked(Svc)
  /\ todo' = Walked(waitpdu) /\ waitpdu' = {}
  /\ got' = [t \in Threads |-> IF t \in waitpdu THEN Failed ELSE got[t]]
  /\ GotoS("purging2")
  /\ UNCHANGED <<pc, made, pxid, sem, ctx, xid, nfs4_open_call_mutex, outqueue, num_done,
                 written, connVars, late>>

\* The end of the purge: what other threads have queued meanwhile stays in outqueue.
purge_end ==
  /\ spc = "purging2" /\ todo = <<>>
  /\ GotoS("poll")
  /\ UNCHANGED <<appVars, xid, rpc_mutex, nfs4_open_call_mutex, queueVars, written,
                 connVars, todo, late>>

-----------------------------------------------------------------------------
(***************************************************************************)
(* The server, and the network                                             *)
(***************************************************************************)
\* The server answers the next whole PDU.
Server ==
  /\ conn = "up" /\ Len(stream) >= Size
  /\ stream[1].part = 1 /\ stream[2] = [stream[1] EXCEPT !.part = 2]
  /\ stream' = SubSeq(stream, Size + 1, Len(stream))
  /\ replies' = Append(replies, [xid |-> stream[1].xid, of |-> stream[1].call])
  /\ UNCHANGED <<appVars, xid, rpc_mutex, nfs4_open_call_mutex, queueVars, written, conn,
                 num_retries, hangups, spc, todo, late>>

\* The server closes the connection.
Hangup ==
  /\ conn = "up" /\ hangups < MaxHangups
  /\ hangups' = hangups + 1 /\ conn' = "closing"
  /\ UNCHANGED <<appVars, xid, rpc_mutex, nfs4_open_call_mutex, queueVars, written,
                 num_retries, stream, replies, spc, todo, late>>

App(t) ==
  \/ nfs_init_cb_data(t) \/ add_thread_context(t) \/ lock_open_call(t)
  \/ rpc_allocate_pdu(t) \/ rpc_queue_pdu(t) \/ read_head(t)
  \/ writev(t) \/ account(t) \/ wait_for_nfs_reply(t)

Service ==
  \/ rpc_read_from_socket \/ rpc_process_reply
  \/ rpc_which_events \/ writev(Svc) \/ account(Svc)
  \/ rpc_timeout_scan \/ rpc_reconnect_requeue \/ requeue_waitpdu \/ reconnect_cb
  \/ purge_outqueue \/ purge_callback \/ purge_unlock \/ purge_waitpdu \/ purge_end
  \/ nfs_mt_service_thread_start \/ nfs_mt_service_thread_stop

Next == (\E t \in Threads : App(t)) \/ Service \/ Server \/ Hangup

\* Every thread runs, and the server answers what it has received.
Fairness == (\A t \in Threads : WF_vars(App(t))) /\ WF_vars(Service) /\ WF_vars(Server)

Spec == Init /\ [][Next]_vars /\ Fairness

-----------------------------------------------------------------------------
(***************************************************************************)
(* Properties                                                              *)
(***************************************************************************)

\* The variables have their types.
TypeOK ==
  /\ pc \in [Threads -> {"idle", "context", "open", "allocate", "queue", "head", "write",
                         "account", "wait"}]
  /\ made \in [Threads -> 0..MaxCalls]
  /\ xid \in Nat /\ pxid \in [Threads -> Nat]
  /\ sem \in [Threads -> 0..1]
  /\ got \in [Threads -> {NoStatus, Failed} \cup (Threads \X (1..MaxCalls))]
  /\ ctx \in Seq(Threads)
  /\ rpc_mutex \in Threads \cup {Svc, Free}
  /\ nfs4_open_call_mutex \in Threads \cup {Free}
  /\ outqueue \in Seq(Threads) /\ waitpdu \subseteq Threads /\ num_done \in 0..(Size - 1)
  /\ conn \in {"up", "closing", "closed", "connecting"} /\ num_retries \in 0..1
  /\ spc \in {"off", "poll", "reply", "write", "account", "requeue", "purge", "purging",
              "purge2", "purging2", "expired"}
  /\ todo \in Seq(Threads)

\* No two threads send the same bytes on one connection, although the thread that queued
\* a PDU and the service thread both write what they find at the head of outqueue, and
\* callbacks of rpc_purge_all_pdus release rpc_mutex under their caller.
SentOnce == \A i, j \in 1..Len(stream) : stream[i] = stream[j] => i = j

\* The status a synchronous call returns comes from the reply to its own RPC, or from an
\* error: rpc_find_pdu never gives it the reply of another thread, nor the late reply to
\* a call that has timed out.
OwnAnswer == \A t \in Threads : got[t] \in {Call(t), NoStatus, Failed}

\* A thread has at most one context in nfsi->thread_ctx, although the list is searched
\* without the mutex: nfs_get_error finds the error of the thread's last call.
OneContext == \A i, j \in 1..Len(ctx) : ctx[i] = ctx[j] => i = j

\* A thread that sleeps on its semaphore, or is about to, has been posted, or its PDU is
\* in exactly one queue or in the hands of the service thread: no reply, timeout or
\* purge that overtakes the end of rpc_queue_pdu is lost.
NoLostWakeup ==
  \A t \in Threads : pc[t] \in {"head", "write", "account", "wait"} =>
    Cardinality({q \in 1..4 : t \in CASE q = 1 -> Range(outqueue) [] q = 2 -> waitpdu
                                   [] q = 3 -> Range(todo)
                                   [] q = 4 -> {u \in Threads : sem[u] = 1}}) = 1

\* A connection carries whole PDUs one after the other, whoever writes them.
StreamWhole ==
  \A i \in 1..Len(stream) :
    IF i % Size = 1 THEN stream[i].part = 1
    ELSE stream[i] = [stream[i - 1] EXCEPT !.part = 2]

\* Every synchronous call returns, whether its reply comes, the connection is lost and
\* made again, or every PDU fails.
CallsReturn == \A t \in Threads : (pc[t] # "idle") ~> (pc[t] = "idle")

=============================================================================
