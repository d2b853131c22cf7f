-------------------------- MODULE NfsThreadsProofs --------------------------
(***************************************************************************)
(* NfsThreads, for any number of threads, calls, hangups, timeouts and     *)
(* partial writes: the types, the contexts, and where a PDU can be while   *)
(* its thread waits.  NfsStreamProofs goes on to what is sent and answered.*)
(***************************************************************************)
EXTENDS NfsQueueProofs

\* A leaf that names no prover is tried with these in turn: the short limits first, then
\* the longer ones, which only a busy machine needs.
USE SMT, Zenon, SMTT(60), ZenonT(60), SMTT(180)

-----------------------------------------------------------------------------
(* The writers.                                                            *)

\* While nobody holds the mutex nobody is between writev() and the accounting.
LEMMA NoWriter ==
    ASSUME IInv, rpc_mutex = Free \/ (rpc_mutex = Svc /\ spc # "account")
    PROVE  /\ \A a \in Actors : ~At(a, "account") /\ written[a] = 0
           /\ Pending = 0 /\ num_done <= Size * Len(outqueue)
<1>1. ASSUME NEW a \in Actors PROVE ~At(a, "account") /\ written[a] = 0
  <2>1. At(a, "account") => rpc_mutex = a
    BY DEF IInv, OneWriter
  <2>2. ~At(a, "account")
    BY <1>1, <2>1, Names DEF At, Actors
  <2>. QED  BY <2>2 DEF IInv, OneWriter
<1>2. Pending = 0
  BY <1>1 DEF Pending, Actors
<1>3. num_done <= Size * Len(outqueue)
  BY <1>2 DEF IInv, OneWriter, TypeQueues
<1>. QED  BY <1>1, <1>2, <1>3

\* The holder of the mutex, between writev() and the end of the accounting.
LEMMA TheWriter ==
    ASSUME IInv, NEW a \in Actors, At(a, "account")
    PROVE  /\ rpc_mutex = a /\ Pending = written[a] /\ written[a] \in Nat
           /\ num_done + written[a] <= Size * Len(outqueue)
           /\ Completed(written[a]) \in 0..Len(outqueue)
           /\ Remaining(written[a]) \in 0..1
           /\ Remaining(written[a]) <= Size * (Len(outqueue) - Completed(written[a]))
           /\ num_done + written[a] = Size * Completed(written[a]) + Remaining(written[a])
<1>1. rpc_mutex = a /\ a # Free
  BY Names DEF IInv, OneWriter, Actors
<1>2. Pending = written[a] /\ written[a] \in Nat
  BY <1>1 DEF Pending, IInv, TypeQueues
<1>3. num_done + written[a] <= Size * Len(outqueue)
  BY <1>2 DEF IInv, OneWriter
<1>4. Len(outqueue) \in Nat /\ num_done \in 0..1
  BY DEF IInv, TypeQueues
<1> DEFINE n == num_done + written[a]
           m == Len(outqueue)
<1>5. n \in Nat /\ m \in Nat /\ n <= 2 * m
  BY <1>2, <1>3, <1>4 DEF Size
<1> HIDE DEF n, m
<1>6. /\ n \div 2 \in 0..m /\ n % 2 \in 0..1 /\ n % 2 <= 2 * (m - (n \div 2))
      /\ n = 2 * (n \div 2) + (n % 2)
  BY <1>5
<1>. QED  BY <1>1, <1>2, <1>3, <1>6 DEF Completed, Remaining, Size, n, m

\* Steps that leave the writer, the queue and the mutex alone; the reset of num_done
\* by a reconnect is one of them.
LEMMA WriterSame ==
    ASSUME IInv, UNCHANGED <<rpc_mutex, written, outqueue>>, num_done' \in {num_done, 0},
           \A a \in Actors : At(a, "account")' <=> At(a, "account")
    PROVE  OneWriter'
<1>1. Pending' = Pending
  BY DEF Pending
<1>2. num_done \in 0..1 /\ Len(outqueue) \in Nat
  BY DEF IInv, TypeQueues
<1>3. Pending \in Nat
  BY DEF Pending, IInv, TypeQueues
<1>4. num_done' + Pending' <= Size * Len(outqueue')
  BY <1>1, <1>2, <1>3 DEF IInv, OneWriter, Size
<1>. QED  BY <1>4 DEF IInv, OneWriter

\* Steps made while nobody is writing.
LEMMA WriterNone ==
    ASSUME IInv, \A a \in Actors : written'[a] = 0 /\ ~At(a, "account")',
           rpc_mutex' \in Actors \cup {Free}, num_done' \in Nat,
           num_done' <= Size * Len(outqueue')
    PROVE  OneWriter'
<1>1. Pending' = 0
  BY DEF Pending
<1>. QED  BY <1>1 DEF OneWriter

-----------------------------------------------------------------------------
(* Where the PDUs are.                                                     *)

QueuesOK == TypeQueues /\ Placed /\ OneWriter

\* outqueue and the service thread's list hold every PDU once.
LEMMA TheQueues ==
    ASSUME IInv
    PROVE  IsQueue(outqueue, Range(outqueue)) /\ IsQueue(todo, Range(todo))
BY DEF IInv, TypeQueues, Placed, IsQueue

\* Placed and the types, from what the queues hold after a step.
LEMMA PlacedFrom ==
    ASSUME NEW Q, NEW T, IsQueue(outqueue', Q), IsQueue(todo', T), waitpdu' \subseteq Threads,
           Q \cap waitpdu' = {}, Q \cap T = {}, waitpdu' \cap T = {},
           Posted' \cap (Q \cup waitpdu' \cup T) = {},
           Posted' \cup Q \cup waitpdu' \cup T = Flying',
           num_done' \in 0..1, rpc_mutex' \in Actors \cup {Free}, written' \in [Actors -> Nat]
    PROVE  TypeQueues' /\ Placed'
<1>1. /\ outqueue' \in Seq(Threads) /\ IsInjective(outqueue') /\ Range(outqueue') = Q
      /\ todo' \in Seq(Threads) /\ IsInjective(todo') /\ Range(todo') = T
  BY DEF IsQueue
<1>2. TypeQueues'
  BY <1>1 DEF TypeQueues, Actors
<1>. QED  BY <1>1, <1>2 DEF Placed

\* Steps that move no PDU.
LEMMA FrameStep ==
    ASSUME IInv, UNCHANGED <<outqueue, waitpdu, todo, sem, rpc_mutex, written>>,
           num_done' \in {num_done, 0}, Flying' = Flying,
           \A a \in Actors : At(a, "account")' <=> At(a, "account")
    PROVE  QueuesOK'
<1>1. OneWriter'
  BY WriterSame
<1>2. TypeQueues'
  BY DEF IInv, TypeQueues, Actors
<1>3. Posted' = Posted
  BY DEF Posted
<1>4. Placed'
  BY <1>3 DEF IInv, Placed
<1>. QED  BY <1>1, <1>2, <1>4 DEF QueuesOK

\* The steps of a call before its PDU is queued, and read_head.
LEMMA CallStep ==
    ASSUME IInv, NEW t \in Threads,
           \/ nfs_init_cb_data(t) \/ add_thread_context(t) \/ lock_open_call(t)
           \/ rpc_allocate_pdu(t) \/ read_head(t)
    PROVE  QueuesOK'
<1>1. /\ pc \in [Threads -> {"idle", "context", "open", "allocate", "queue", "head", "write",
                             "account", "wait"}]
      /\ sem \in [Threads -> 0..1]
  BY DEF IInv, TypeThreads
<1>2. UNCHANGED <<outqueue, waitpdu, num_done, todo, rpc_mutex, written, spc>>
  BY Zenon, ZenonT(60)
       DEF nfs_init_cb_data, add_thread_context, lock_open_call, rpc_allocate_pdu, read_head,
     queueVars, Locked
<1>3. \E l \in {"context", "open", "allocate", "queue", "write", "wait"} :
        /\ Goto(t, l)
        /\ (l \in {"write", "wait"}) <=> (pc[t] = "head")
        /\ pc[t] \in {"idle", "context", "open", "allocate", "head"}
  BY DEF nfs_init_cb_data, add_thread_context, lock_open_call, rpc_allocate_pdu, read_head,
     AfterInit
<1>4. Flying' = Flying
  BY <1>1, <1>3 DEF Flying, Goto
<1>5. sem' = sem
  <2>1. CASE nfs_init_cb_data(t)
    <3>1. t \notin Flying
      BY <2>1 DEF nfs_init_cb_data, Flying
    <3>2. t \notin Posted
      BY <3>1 DEF IInv, Placed
    <3>3. sem[t] = 0
      BY <1>1, <3>2 DEF Posted
    <3>. QED  BY <1>1, <2>1, <3>3 DEF nfs_init_cb_data
  <2>2. CASE ~nfs_init_cb_data(t)
    BY <2>2 DEF add_thread_context, lock_open_call, rpc_allocate_pdu, read_head
  <2>. QED  BY <2>1, <2>2
<1>6. \A a \in Actors : At(a, "account")' <=> At(a, "account")
  BY <1>1, <1>2, <1>3 DEF At, Goto, Actors
<1>. QED  BY <1>2, <1>4, <1>5, <1>6, FrameStep

\* rpc_queue_pdu appends a PDU that is in no queue.
LEMMA QueueStep == ASSUME IInv, NEW t \in Threads, rpc_queue_pdu(t) PROVE QueuesOK'
<1>1. /\ rpc_mutex = Free /\ pc[t] = "queue" /\ outqueue' = Append(outqueue, t)
      /\ pc' = [pc EXCEPT ![t] = "head"]
      /\ UNCHANGED <<waitpdu, num_done, written, todo, sem, spc, rpc_mutex>>
  BY DEF rpc_queue_pdu, Locked, Goto
<1>2. /\ pc \in [Threads -> {"idle", "context", "open", "allocate", "queue", "head", "write",
                             "account", "wait"}]
      /\ TypeQueues /\ Placed
  BY DEF IInv, TypeThreads
<1>3. t \notin Flying /\ Flying' = Flying \cup {t} /\ Posted' = Posted
  BY <1>1, <1>2 DEF Flying, Posted
<1>4. t \notin Range(outqueue) \cup waitpdu \cup Range(todo) \cup Posted
  BY <1>2, <1>3 DEF Placed
<1>5. IsQueue(outqueue', Range(outqueue) \cup {t}) /\ IsQueue(todo', Range(todo))
  BY <1>1, <1>4, TheQueues, AppendQueue
<1>6. TypeQueues' /\ Placed'
  <2> DEFINE Q == Range(outqueue) \cup {t}
             T == Range(todo)
  <2>1. /\ Q \cap waitpdu' = {} /\ Q \cap T = {} /\ waitpdu' \cap T = {}
        /\ Posted' \cap (Q \cup waitpdu' \cup T) = {}
        /\ Posted' \cup Q \cup waitpdu' \cup T = Flying'
    BY <1>1, <1>2, <1>3, <1>4, Zenon, ZenonT(60) DEF Placed
  <2>2. num_done' \in 0..1 /\ rpc_mutex' \in Actors \cup {Free} /\ written' \in [Actors -> Nat]
        /\ waitpdu' \subseteq Threads
    BY <1>1, <1>2 DEF TypeQueues
  <2> HIDE DEF Q, T
  <2>3. IsQueue(outqueue', Q) /\ IsQueue(todo', T)
    BY <1>5 DEF Q, T
  <2>. QED  BY <2>1, <2>2, <2>3, PlacedFrom, Zenon, ZenonT(60)
<1>7. OneWriter'
  <2>1. \A a \in Actors : written'[a] = 0 /\ ~At(a, "account")'
    BY <1>1, <1>2, NoWriter DEF At, Actors
  <2>2. num_done' <= Size * Len(outqueue') /\ num_done' \in Nat
    <3>1. Len(outqueue') = Len(outqueue) + 1 /\ Len(outqueue) \in Nat /\ num_done \in 0..1
      BY <1>1, <1>2 DEF TypeQueues
    <3>. QED  BY <1>1, <3>1, NoWriter DEF Size
  <2>3. rpc_mutex' \in Actors \cup {Free}
    BY <1>1
  <2>. QED  BY <2>1, <2>2, <2>3, WriterNone
<1>. QED  BY <1>6, <1>7 DEF QueuesOK

\* wait_for_nfs_reply takes the post of its own semaphore: the PDU leaves the books.
LEMMA WaitStep == ASSUME IInv, NEW t \in Threads, wait_for_nfs_reply(t) PROVE QueuesOK'
<1>1. /\ pc[t] = "wait" /\ sem[t] > 0 /\ sem' = [sem EXCEPT ![t] = sem[t] - 1]
      /\ pc' = [pc EXCEPT ![t] = "idle"]
      /\ UNCHANGED <<outqueue, waitpdu, num_done, written, todo, spc, rpc_mutex>>
  BY DEF wait_for_nfs_reply, Goto, queueVars
<1>2. /\ pc \in [Threads -> {"idle", "context", "open", "allocate", "queue", "head", "write",
                             "account", "wait"}]
      /\ sem \in [Threads -> 0..1] /\ TypeQueues /\ Placed
  BY DEF IInv, TypeThreads
<1>3. t \in Posted /\ Posted' = Posted \ {t}
  <2>1. sem[t] = 1 /\ sem' = [sem EXCEPT ![t] = 0]
    <3>1. sem[t] \in 0..1
      BY <1>2
    <3>2. sem[t] = 1 /\ sem[t] - 1 = 0
      BY <1>1, <3>1
    <3>. QED  BY <1>1, <3>2
  <2>. QED  BY <1>2, <2>1 DEF Posted
<1>4. Flying' = Flying \ {t}
  BY <1>1, <1>2 DEF Flying
<1>5. Placed'
  BY <1>1, <1>2, <1>3, <1>4, Zenon, ZenonT(60) DEF Placed
<1>6. TypeQueues'
  BY <1>1, <1>2 DEF TypeQueues, Actors
<1>7. \A a \in Actors : At(a, "account")' <=> At(a, "account")
  BY <1>1, <1>2 DEF At, Actors
<1>8. OneWriter'
  BY <1>1, <1>7, WriterSame
<1>. QED  BY <1>5, <1>6, <1>8 DEF QueuesOK

\* writev(): the mutex is taken and kept until the accounting is done.
LEMMA WritevStep == ASSUME IInv, NEW a \in Actors, writev(a) PROVE QueuesOK'
<1>1. /\ rpc_mutex = Free /\ At(a, "write")
      /\ UNCHANGED <<outqueue, waitpdu, num_done, todo, sem>>
  BY DEF writev, queueVars
<1>2. /\ pc \in [Threads -> {"idle", "context", "open", "allocate", "queue", "head", "write",
                             "account", "wait"}]
      /\ TypeQueues /\ Placed
  BY DEF IInv, TypeThreads
<1>3. Flying' = Flying
  <2>1. GotoW(a, AfterWrite(a)) \/ GotoW(a, "account")
    BY DEF writev
  <2>2. \/ UNCHANGED pc
        \/ /\ a \in Threads /\ pc[a] = "write"
           /\ \E l \in {"wait", "account"} : pc' = [pc EXCEPT ![a] = l]
    BY <1>1, <2>1 DEF GotoW, Goto, AfterWrite, At, Actors
  <2>. QED  BY <1>2, <2>2 DEF Flying
<1>4. Placed'
  <2>1. Posted' = Posted
    BY <1>1 DEF Posted
  <2>. QED  BY <1>1, <1>2, <1>3, <2>1 DEF Placed
<1>5. CASE UNCHANGED <<rpc_mutex, written>> /\ GotoW(a, AfterWrite(a))
  <2>1. TypeQueues'
    BY <1>1, <1>2, <1>5 DEF TypeQueues, Actors
  <2>2. \A b \in Actors : At(b, "account")' <=> At(b, "account")
    BY <1>1, <1>2, <1>5, Names DEF At, GotoW, Goto, AfterWrite, Actors
  <2>3. OneWriter'
    BY <1>1, <1>5, <2>2, WriterSame
  <2>. QED  BY <1>4, <2>1, <2>3 DEF QueuesOK
<1>6. CASE /\ rpc_mutex' = Writer(a) /\ GotoW(a, "account")
           /\ \E n \in IF ShortWrites THEN 1..Len(Unsent) ELSE {Len(Unsent)} :
                written' = [written EXCEPT ![a] = n]
  <2> DEFINE m == Size * Len(outqueue) - num_done
  <2>1. Len(Unsent) = m /\ m \in Nat
    <3>1. Len(outqueue) \in Nat /\ num_done \in 0..1
      BY <1>2 DEF TypeQueues
    <3>. QED  BY <1>1, <3>1, NoWriter, UnsentType DEF Size
  <2>2. PICK n \in 0..m : written' = [written EXCEPT ![a] = n]
    <3>1. (IF ShortWrites THEN 1..Len(Unsent) ELSE {Len(Unsent)}) \subseteq 0..m
      BY <2>1
    <3>. QED  BY <1>6, <3>1, Zenon, ZenonT(60)
  <2>3. n \in Nat /\ num_done + n <= Size * Len(outqueue) /\ rpc_mutex' = a /\ a # Free
    <3>1. Len(outqueue) \in Nat /\ num_done \in 0..1
      BY <1>2 DEF TypeQueues
    <3>2. rpc_mutex' = a /\ a # Free
      BY <1>6, Names DEF Writer, Actors
    <3>. QED  BY <3>1, <3>2 DEF Size
  <2> HIDE DEF m
  <2>4. TypeQueues'
    BY <1>1, <1>2, <2>2, <2>3 DEF TypeQueues, Actors
  <2>5. Pending' = n
    BY <1>2, <2>2, <2>3 DEF Pending, TypeQueues
  <2>6. ASSUME NEW b \in Actors
        PROVE  IF At(b, "account")' THEN rpc_mutex' = b ELSE written'[b] = 0
    <3>1. CASE b = a
      BY <1>2, <1>6, <2>3, <3>1 DEF At, GotoW, Goto, Actors
    <3>2. CASE b # a
      <4>1. ~At(b, "account") /\ written[b] = 0
        BY <1>1, NoWriter
      <4>2. ~At(b, "account")'
        BY <1>2, <1>6, <3>2, <4>1, Names DEF At, GotoW, Goto, Actors
      <4>3. written'[b] = 0
        BY <1>2, <2>2, <3>2, <4>1 DEF TypeQueues
      <4>. QED  BY <4>2, <4>3
    <3>. QED  BY <3>1, <3>2
  <2>7. num_done' + Pending' <= Size * Len(outqueue')
    BY <1>1, <2>3, <2>5
  <2>8. OneWriter'
    <3>1. \A b \in Actors : (IF At(b, "account") THEN rpc_mutex = b ELSE written[b] = 0)'
      BY <2>6
    <3>. QED  BY <2>7, <3>1, Zenon, ZenonT(60) DEF OneWriter, Actors
  <2>. QED  BY <1>4, <2>4, <2>8 DEF QueuesOK
<1>. QED  BY <1>5, <1>6, Zenon, ZenonT(60) DEF writev

\* The accounting: the PDUs that are complete wait for their replies.
LEMMA AccountStep == ASSUME IInv, NEW a \in Actors, account(a) PROVE QueuesOK'
<1> DEFINE k == Completed(written[a])
           sent == {outqueue[i] : i \in 1..k}
<1>1. /\ At(a, "account") /\ waitpdu' = waitpdu \cup sent
      /\ outqueue' = SubSeq(outqueue, k + 1, Len(outqueue))
      /\ num_done' = Remaining(written[a]) /\ written' = [written EXCEPT ![a] = 0]
      /\ rpc_mutex' = Unlocked(rpc_mutex, a) /\ GotoW(a, AfterWrite(a))
      /\ UNCHANGED <<sem, todo>>
  BY DEF account
<1>2. /\ pc \in [Threads -> {"idle", "context", "open", "allocate", "queue", "head", "write",
                             "account", "wait"}]
      /\ TypeQueues /\ Placed
  BY DEF IInv, TypeThreads
<1>3. /\ rpc_mutex = a /\ k \in 0..Len(outqueue) /\ num_done' \in 0..1
      /\ num_done' <= Size * (Len(outqueue) - k)
  BY <1>1, TheWriter
<1>4. rpc_mutex' = Free
  BY <1>1, <1>3 DEF Unlocked
<1>5. sent \subseteq Range(outqueue) /\ IsQueue(outqueue', Range(outqueue) \ sent)
  BY <1>1, <1>3, TheQueues, SplitQueue, Zenon, ZenonT(60)
<1>6. Flying' = Flying /\ Posted' = Posted
  <2>1. \/ UNCHANGED pc
        \/ a \in Threads /\ pc[a] = "account" /\ pc' = [pc EXCEPT ![a] = "wait"]
    BY <1>1 DEF GotoW, Goto, AfterWrite, At, Actors
  <2>. QED  BY <1>1, <1>2, <2>1 DEF Flying, Posted
<1>7. Len(outqueue') = Len(outqueue) - k
  <2>1. outqueue \in Seq(Threads) /\ Len(outqueue) \in Nat /\ k \in Nat
    BY <1>2, <1>3 DEF TypeQueues
  <2> HIDE DEF k
  <2>. QED  BY <1>1, <1>3, <2>1
<1> HIDE DEF k, sent
<1>8. TypeQueues' /\ Placed'
  <2> DEFINE Q == Range(outqueue) \ sent
             T == Range(todo)
  <2>1. /\ Q \cap waitpdu' = {} /\ Q \cap T = {} /\ waitpdu' \cap T = {}
        /\ Posted' \cap (Q \cup waitpdu' \cup T) = {}
        /\ Posted' \cup Q \cup waitpdu' \cup T = Flying'
    BY <1>1, <1>2, <1>5, <1>6 DEF Placed
  <2>2. /\ rpc_mutex' \in Actors \cup {Free} /\ written' \in [Actors -> Nat]
        /\ waitpdu' \subseteq Threads
    <3>1. sent \subseteq Threads
      BY <1>2, <1>5 DEF TypeQueues, Range
    <3>. QED  BY <1>1, <1>2, <1>4, <3>1 DEF TypeQueues
  <2> HIDE DEF Q, T
  <2>3. IsQueue(outqueue', Q) /\ IsQueue(todo', T)
    BY <1>1, <1>5, TheQueues DEF Q, T
  <2>. QED  BY <1>3, <2>1, <2>2, <2>3, PlacedFrom, Zenon, ZenonT(60)
<1>9. OneWriter'
  <2>1. ASSUME NEW b \in Actors PROVE written'[b] = 0 /\ ~At(b, "account")'
    <3>1. CASE b = a
      <4>1. written'[b] = 0
        BY <1>1, <1>2, <3>1 DEF TypeQueues
      <4>2. ~At(b, "account")'
        BY <1>1, <1>2, <3>1, Names DEF At, GotoW, Goto, AfterWrite, Actors
      <4>. QED  BY <4>1, <4>2
    <3>2. CASE b # a
      <4>1. ~At(b, "account") /\ written[b] = 0
        BY <1>3, <3>2 DEF IInv, OneWriter
      <4>2. ~At(b, "account")'
        BY <1>1, <1>2, <3>2, <4>1, Names DEF At, GotoW, Goto, Actors
      <4>3. written'[b] = 0
        BY <1>1, <1>2, <3>2, <4>1 DEF TypeQueues
      <4>. QED  BY <4>2, <4>3
    <3>. QED  BY <3>1, <3>2
  <2>2. num_done' \in Nat /\ num_done' <= Size * Len(outqueue')
    BY <1>3, <1>7
  <2>. QED  BY <1>4, <2>1, <2>2, WriterNone
<1>. QED  BY <1>8, <1>9 DEF QueuesOK

\* A PDU is taken off its queue, under the mutex, by rpc_find_pdu or rpc_timeout_scan.
LEMMA TakenStep ==
    ASSUME IInv, NEW t \in Threads, Taken(t), todo = <<>>, rpc_mutex = Free,
           rpc_mutex' \in {Free, Svc}, UNCHANGED <<sem, pc, written>>,
           spc' \in {"reply", "expired"}
    PROVE  QueuesOK'
<1>1. TypeQueues /\ Placed
  BY DEF IInv
<1>2. /\ t \in Range(outqueue) \cup waitpdu /\ todo' = <<t>>
      /\ outqueue' = rpc_remove_pdu_from_queue(outqueue, t) /\ waitpdu' = waitpdu \ {t}
      /\ num_done' = IF outqueue # <<>> /\ Head(outqueue) = t THEN 0 ELSE num_done
  BY DEF Taken
<1>3. IsQueue(outqueue', Range(outqueue) \ {t})
  BY <1>2, TheQueues, RemoveQueue
<1>4. IsQueue(todo', {t})
  BY <1>2 DEF IsQueue, IsInjective, Range
<1>5. Flying' = Flying /\ Posted' = Posted /\ Range(todo) = {}
  BY DEF Flying, Posted, Range
<1>6. num_done' \in 0..1 /\ num_done' <= Size * Len(outqueue')
  <2>1. num_done \in 0..1 /\ Len(outqueue) \in Nat /\ outqueue' \in Seq(Threads)
    BY <1>1, <1>3 DEF TypeQueues, IsQueue
  <2>2. CASE outqueue # <<>> /\ Head(outqueue) = t
    BY <1>2, <2>1, <2>2 DEF Size
  <2>3. CASE outqueue = <<>>
    <3>1. num_done = 0
      BY <2>1, <2>3, NoWriter DEF Size
    <3>. QED  BY <1>2, <2>1, <3>1 DEF Size
  <2>4. CASE outqueue # <<>> /\ Head(outqueue) # t
    <3>1. Head(outqueue) \in Range(outqueue)
      BY <1>1, <2>4, TheQueues, TailQueue, Zenon, ZenonT(60)
    <3>2. Head(outqueue) \in Range(outqueue')
      BY <1>3, <2>4, <3>1 DEF IsQueue
    <3>3. Len(outqueue') # 0
      BY <2>1, <3>2 DEF Range
    <3>. QED  BY <1>2, <2>1, <2>4, <3>3 DEF Size
  <2>. QED  BY <2>2, <2>3, <2>4
<1>7. TypeQueues' /\ Placed'
  <2> DEFINE Q == Range(outqueue) \ {t}
             T == {t}
  <2>1. /\ Q \cap waitpdu' = {} /\ Q \cap T = {} /\ waitpdu' \cap T = {}
        /\ Posted' \cap (Q \cup waitpdu' \cup T) = {}
        /\ Posted' \cup Q \cup waitpdu' \cup T = Flying'
    BY <1>1, <1>2, <1>5 DEF Placed
  <2>2. /\ rpc_mutex' \in Actors \cup {Free} /\ written' \in [Actors -> Nat]
        /\ waitpdu' \subseteq Threads
    BY <1>1, <1>2 DEF TypeQueues, Actors
  <2> HIDE DEF Q, T
  <2>3. IsQueue(outqueue', Q) /\ IsQueue(todo', T)
    BY <1>3, <1>4 DEF Q, T
  <2>. QED  BY <1>6, <2>1, <2>2, <2>3, PlacedFrom, Zenon, ZenonT(60)
<1>8. OneWriter'
  <2>1. \A b \in Actors : written'[b] = 0 /\ ~At(b, "account")'
    BY NoWriter DEF At, Actors
  <2>2. rpc_mutex' \in Actors \cup {Free} /\ num_done' \in Nat
    BY <1>6 DEF Actors
  <2>. QED  BY <1>6, <2>1, <2>2, WriterNone
<1>. QED  BY <1>7, <1>8 DEF QueuesOK

\* A callback: the PDU in hand is gone, and its thread's semaphore is posted.
LEMMA FinishedPlaced ==
    ASSUME IInv, todo # <<>>, cb_data_is_finished(Head(todo)),
           UNCHANGED <<pc, outqueue, waitpdu, num_done, written>>,
           rpc_mutex' \in Actors \cup {Free}
    PROVE  TypeQueues' /\ Placed'
<1> DEFINE t == Head(todo)
<1>1. TypeQueues /\ Placed /\ sem \in [Threads -> 0..1]
  BY DEF IInv, TypeThreads
<1>2. t \in Range(todo) /\ IsQueue(Tail(todo), Range(todo) \ {t})
  BY TheQueues, TailQueue
<1>3. t \in Threads /\ t \notin Posted
  BY <1>1, <1>2 DEF TypeQueues, Range, Placed
<1>4. todo' = Tail(todo) /\ sem' = [sem EXCEPT ![t] = sem[t] + 1]
  BY DEF cb_data_is_finished, sem_post
<1> HIDE DEF t
<1>5. Posted' = Posted \cup {t} /\ Flying' = Flying
  <2>1. sem[t] = 0
    BY <1>1, <1>3 DEF Posted
  <2>2. sem' = [sem EXCEPT ![t] = 1]
    BY <1>1, <1>4, <2>1
  <2>. QED  BY <1>1, <1>3, <2>2 DEF Posted, Flying
<1> DEFINE Q == Range(outqueue)
           T == Range(todo) \ {t}
<1>6. /\ Q \cap waitpdu' = {} /\ Q \cap T = {} /\ waitpdu' \cap T = {}
      /\ Posted' \cap (Q \cup waitpdu' \cup T) = {}
      /\ Posted' \cup Q \cup waitpdu' \cup T = Flying'
  BY <1>1, <1>2, <1>5 DEF Placed
<1>7. /\ num_done' \in 0..1 /\ rpc_mutex' \in Actors \cup {Free} /\ written' \in [Actors -> Nat]
      /\ waitpdu' \subseteq Threads
  BY <1>1 DEF TypeQueues
<1> HIDE DEF Q, T
<1>8. IsQueue(outqueue', Q) /\ IsQueue(todo', T)
  BY <1>2, <1>4, TheQueues DEF Q, T
<1>. QED  BY <1>6, <1>7, <1>8, PlacedFrom, Zenon, ZenonT(60)

\* rpc_process_reply, and the callbacks of a purge and of a timeout.
LEMMA CallbackStep == ASSUME IInv, rpc_process_reply \/ purge_callback PROVE QueuesOK'
<1>1. /\ cb_data_is_finished(Head(todo))
      /\ UNCHANGED <<pc, outqueue, waitpdu, num_done, written>>
  BY DEF rpc_process_reply, purge_callback, queueVars
<1>2. todo # <<>>
  BY DEF IInv, InHand, TypeQueues, rpc_process_reply, purge_callback
<1>3. rpc_mutex' \in Actors \cup {Free}
  BY DEF rpc_process_reply, purge_callback, IInv, TypeQueues
<1>4. TypeQueues' /\ Placed'
  BY <1>1, <1>2, <1>3, FinishedPlaced
<1>5. CASE rpc_process_reply
  <2>1. spc = "reply" /\ spc' = "poll" /\ UNCHANGED rpc_mutex
    BY <1>5 DEF rpc_process_reply, GotoS
  <2>2. \A a \in Actors : At(a, "account")' <=> At(a, "account")
    BY <1>1, <2>1 DEF At
  <2>. QED  BY <1>1, <1>4, <2>1, <2>2, WriterSame DEF QueuesOK
<1>6. CASE purge_callback
  <2>1. rpc_mutex \in {Free, Svc} /\ spc \in {"purging", "purging2", "expired"} /\ spc' = spc
    BY <1>6 DEF purge_callback, CanLock
  <2>2. /\ \A a \in Actors : ~At(a, "account") /\ written[a] = 0
        /\ num_done <= Size * Len(outqueue)
    BY <2>1, NoWriter
  <2>3. \A a \in Actors : written'[a] = 0 /\ ~At(a, "account")'
    BY <1>1, <2>1, <2>2 DEF At
  <2>4. num_done' <= Size * Len(outqueue') /\ num_done' \in Nat
    BY <1>1, <2>2 DEF IInv, TypeQueues
  <2>. QED  BY <1>3, <1>4, <2>3, <2>4, WriterNone DEF QueuesOK
<1>. QED  BY <1>5, <1>6

\* requeue_waitpdu, purge_outqueue and purge_waitpdu move whole queues, under the mutex.
LEMMA MoveStep ==
    ASSUME IInv, requeue_waitpdu \/ purge_outqueue \/ purge_waitpdu
    PROVE  QueuesOK'
<1>1. /\ rpc_mutex = Free /\ rpc_mutex' \in {Free, Svc} /\ UNCHANGED <<pc, sem, written>>
      /\ spc' \in {"poll", "purge", "purging", "purging2"} /\ todo = <<>>
  <2>1. todo = <<>>
    BY DEF requeue_waitpdu, purge_outqueue, purge_waitpdu, IInv, InHand
  <2>. QED  BY <2>1 DEF requeue_waitpdu, purge_outqueue, purge_waitpdu, Locked, GotoS, appVars
<1>2. TypeQueues /\ Placed
  BY DEF IInv
<1>3. Flying' = Flying /\ Posted' = Posted /\ Range(todo) = {}
  BY <1>1 DEF Flying, Posted, Range
<1>4. \A a \in Actors : written'[a] = 0 /\ ~At(a, "account")'
  BY <1>1, NoWriter DEF At, Actors
<1>5. rpc_mutex' \in Actors \cup {Free} /\ written' \in [Actors -> Nat]
  BY <1>1, <1>2 DEF TypeQueues, Actors
<1>6. CASE requeue_waitpdu
  <2>1. /\ outqueue' = Requeued(outqueue, waitpdu) /\ waitpdu' = {}
        /\ UNCHANGED <<todo, num_done>>
    BY <1>6 DEF requeue_waitpdu
  <2>2. IsQueue(outqueue', Range(outqueue) \cup waitpdu)
    BY <1>2, <2>1, TheQueues, RequeuedQueue DEF TypeQueues, Placed
  <2>3. num_done' \in Nat /\ num_done' <= Size * Len(outqueue')
    <3>1. num_done \in 0..1 /\ Len(outqueue) \in Nat /\ outqueue' \in Seq(Threads)
      BY <1>2, <2>2 DEF TypeQueues, IsQueue
    <3>2. CASE outqueue = <<>>
      <4>1. num_done = 0
        BY <1>1, <3>1, <3>2, NoWriter DEF Size
      <4>. QED  BY <2>1, <3>1, <4>1 DEF Size
    <3>3. CASE outqueue # <<>>
      <4>1. Head(outqueue) \in Range(outqueue')
        BY <2>2, <3>3, TheQueues, TailQueue DEF IsQueue
      <4>2. Len(outqueue') # 0
        BY <3>1, <4>1 DEF Range
      <4>. QED  BY <2>1, <3>1, <4>2 DEF Size
    <3>. QED  BY <3>2, <3>3
  <2> DEFINE Q == Range(outqueue) \cup waitpdu
             T == Range(todo)
  <2>4. /\ Q \cap waitpdu' = {} /\ Q \cap T = {} /\ waitpdu' \cap T = {}
        /\ Posted' \cap (Q \cup waitpdu' \cup T) = {}
        /\ Posted' \cup Q \cup waitpdu' \cup T = Flying'
    BY <1>2, <1>3, <2>1 DEF Placed
  <2> HIDE DEF Q, T
  <2>5. IsQueue(outqueue', Q) /\ IsQueue(todo', T)
    BY <2>1, <2>2, TheQueues DEF Q, T
  <2>6. num_done' \in 0..1 /\ waitpdu' \subseteq Threads
    BY <1>2, <2>1 DEF TypeQueues
  <2>7. TypeQueues' /\ Placed'
    BY <1>5, <2>4, <2>5, <2>6, PlacedFrom, Zenon, ZenonT(60)
  <2>. QED  BY <1>4, <1>5, <2>3, <2>7, WriterNone DEF QueuesOK
<1>7. CASE purge_outqueue
  <2>1. todo' = outqueue /\ outqueue' = <<>> /\ num_done' = 0 /\ UNCHANGED waitpdu
    BY <1>7 DEF purge_outqueue
  <2> DEFINE Q == {}
             T == Range(outqueue)
  <2>2. IsQueue(outqueue', Q) /\ IsQueue(todo', T)
    <3>1. IsQueue(outqueue', Q)
      BY <2>1 DEF IsQueue, IsInjective, Range
    <3>. QED  BY <2>1, <3>1, TheQueues
  <2>3. /\ Q \cap waitpdu' = {} /\ Q \cap T = {} /\ waitpdu' \cap T = {}
        /\ Posted' \cap (Q \cup waitpdu' \cup T) = {}
        /\ Posted' \cup Q \cup waitpdu' \cup T = Flying'
    BY <1>2, <1>3, <2>1 DEF Placed
  <2>4. num_done' \in 0..1 /\ waitpdu' \subseteq Threads
    BY <1>2, <2>1 DEF TypeQueues
  <2>5. num_done' \in Nat /\ num_done' <= Size * Len(outqueue')
    BY <2>1 DEF Size
  <2> HIDE DEF Q, T
  <2>6. TypeQueues' /\ Placed'
    BY <1>5, <2>2, <2>3, <2>4, PlacedFrom, Zenon, ZenonT(60)
  <2>. QED  BY <1>4, <1>5, <2>5, <2>6, WriterNone DEF QueuesOK
<1>8. CASE purge_waitpdu
  <2>1. todo' = Walked(waitpdu) /\ waitpdu' = {} /\ UNCHANGED <<outqueue, num_done>>
    BY <1>8 DEF purge_waitpdu
  <2> DEFINE Q == Range(outqueue)
             T == waitpdu
  <2>2. IsQueue(outqueue', Q) /\ IsQueue(todo', T)
    BY <1>2, <2>1, TheQueues, SetQueue DEF TypeQueues
  <2>3. /\ Q \cap waitpdu' = {} /\ Q \cap T = {} /\ waitpdu' \cap T = {}
        /\ Posted' \cap (Q \cup waitpdu' \cup T) = {}
        /\ Posted' \cup Q \cup waitpdu' \cup T = Flying'
    BY <1>2, <1>3, <2>1 DEF Placed
  <2>4. num_done' \in 0..1 /\ waitpdu' \subseteq Threads /\ num_done' \in Nat
    BY <1>2, <2>1 DEF TypeQueues
  <2>5. num_done' <= Size * Len(outqueue')
    BY <1>1, <2>1, NoWriter
  <2> HIDE DEF Q, T
  <2>6. TypeQueues' /\ Placed'
    BY <1>5, <2>2, <2>3, <2>4, PlacedFrom, Zenon, ZenonT(60)
  <2>. QED  BY <1>4, <1>5, <2>4, <2>5, <2>6, WriterNone DEF QueuesOK
<1>. QED  BY <1>6, <1>7, <1>8

\* Steps of the service thread, the server and the network that move no PDU.
LEMMA OtherStep ==
    ASSUME IInv,
           \/ rpc_which_events \/ rpc_reconnect_requeue \/ reconnect_cb \/ purge_end
           \/ nfs_mt_service_thread_start \/ nfs_mt_service_thread_stop
           \/ Server \/ Hangup \/ UNCHANGED vars
    PROVE  QueuesOK'
<1>1. UNCHANGED <<outqueue, waitpdu, todo, sem, rpc_mutex, written, pc>>
  BY Zenon, ZenonT(60)
  DEF rpc_which_events, rpc_reconnect_requeue, reconnect_cb, purge_end,
      nfs_mt_service_thread_start, nfs_mt_service_thread_stop, Server, Hangup, vars, appVars,
      queueVars
<1>2. num_done' \in {num_done, 0}
  BY
  DEF rpc_which_events, rpc_reconnect_requeue, reconnect_cb, purge_end,
      nfs_mt_service_thread_start, nfs_mt_service_thread_stop, Server, Hangup, vars, queueVars
<1>3. spc' = spc \/ (spc # "account" /\ spc' # "account")
  BY
  DEF rpc_which_events, rpc_reconnect_requeue, reconnect_cb, purge_end,
      nfs_mt_service_thread_start, nfs_mt_service_thread_stop, Server, Hangup, vars, GotoS
<1>4. Flying' = Flying
  BY <1>1 DEF Flying
<1>5. \A a \in Actors : At(a, "account")' <=> At(a, "account")
  BY <1>1, <1>3 DEF At
<1>. QED  BY <1>1, <1>2, <1>4, <1>5, FrameStep

\* The unlock at the end of rpc_timeout_scan or of the first loop of a purge.
LEMMA UnlockStep == ASSUME IInv, purge_unlock PROVE QueuesOK'
<1>1. /\ rpc_mutex' = Unlocked(rpc_mutex, Svc) /\ spc \in {"purging", "expired"}
      /\ spc' \in {"purge2", "poll"}
      /\ UNCHANGED <<outqueue, waitpdu, num_done, todo, sem, written, pc>>
  BY DEF purge_unlock, GotoS, appVars, queueVars
<1>2. Flying' = Flying /\ Posted' = Posted
  BY <1>1 DEF Flying, Posted
<1>3. \A a \in Actors : At(a, "account")' <=> At(a, "account")
  BY <1>1 DEF At
<1>4. CASE rpc_mutex # Svc
  BY <1>1, <1>2, <1>3, <1>4, FrameStep DEF Unlocked
<1>5. CASE rpc_mutex = Svc
  <2>1. rpc_mutex' = Free
    BY <1>1, <1>5 DEF Unlocked
  <2>2. TypeQueues' /\ Placed'
    BY <1>1, <1>2, <2>1 DEF IInv, TypeQueues, Placed, Actors
  <2>3. \A a \in Actors : written'[a] = 0 /\ ~At(a, "account")'
    BY <1>1, <1>3, <1>5, NoWriter
  <2>4. num_done' <= Size * Len(outqueue') /\ num_done' \in Nat
    BY <1>1, <1>5, NoWriter DEF IInv, TypeQueues
  <2>. QED  BY <2>1, <2>2, <2>3, <2>4, WriterNone DEF QueuesOK
<1>. QED  BY <1>4, <1>5

\* No step loses a PDU, keeps it in two places or lets two threads write at once.
LEMMA QueuesStep == ASSUME IInv, [Next]_vars PROVE QueuesOK'
<1>1. ASSUME NEW t \in Threads, App(t) PROVE QueuesOK'
  BY <1>1, CallStep, QueueStep, WaitStep, WritevStep, AccountStep, Zenon, ZenonT(60)
       DEF App, Actors
<1>2. CASE rpc_read_from_socket
  <2>1. /\ rpc_mutex = Free /\ spc = "poll"
        /\ UNCHANGED <<rpc_mutex, sem, pc, written>>
    BY <1>2 DEF rpc_read_from_socket, Locked
  <2>2. todo = <<>>
    BY <2>1 DEF IInv, InHand
  <2>3. CASE UNCHANGED <<spc, todo, outqueue, waitpdu, num_done, got>>
    BY <2>1, <2>3, FrameStep DEF Flying, At
  <2>4. CASE \E t \in Threads : Taken(t) /\ spc' = "reply"
    BY <2>1, <2>2, <2>4, TakenStep
  <2>. QED  BY <1>2, <2>3, <2>4, ReadEffect, Zenon, ZenonT(60)
<1>3. CASE rpc_timeout_scan
  <2>1. /\ rpc_mutex = Free /\ spc = "poll" /\ rpc_mutex' = Svc /\ spc' = "expired"
        /\ UNCHANGED <<sem, pc, written>>
    BY <1>3 DEF rpc_timeout_scan, GotoS
  <2>2. todo = <<>>
    BY <2>1 DEF IInv, InHand
  <2>3. PICK t \in Threads : Taken(t)
    BY <1>3, ScanEffect
  <2>. QED  BY <2>1, <2>2, <2>3, TakenStep
<1>4. CASE Service
  BY <1>2, <1>3, <1>4, WritevStep, AccountStep, CallbackStep, MoveStep, OtherStep, UnlockStep,
     Zenon, ZenonT(60) DEF Service, Actors
<1>. QED  BY <1>1, <1>4, OtherStep DEF Next

\* The invariant is inductive.
LEMMA NextIInv == IInv /\ [Next]_vars => IInv'
BY ContextStep, TypeThreadsStep, InHandStep, QueuesStep, TypeConnStep DEF QueuesOK, IInv

-----------------------------------------------------------------------------
\* IInv holds in every state the threads and the server can reach.
LEMMA InductiveInvariant == Spec => []IInv
BY InitIInv, NextIInv, PTL DEF Spec

\* The variables keep their types, however the threads and the server interleave.
THEOREM TypeCorrect == Spec => []TypeOK
<1>1. ASSUME IInv PROVE TypeOK
  <2>1. TypeThreads /\ TypeQueues /\ TypeConn
    BY <1>1, Zenon, ZenonT(60) DEF IInv
  <2>2. got \in [Threads -> {NoStatus, Failed} \cup (Threads \X (1..MaxCalls))]
    BY <2>1, Zenon, ZenonT(60) DEF TypeThreads, Calls
  <2>3. rpc_mutex \in Threads \cup {Svc, Free}
    BY <2>1, Zenon, ZenonT(60) DEF TypeQueues, Actors
  <2>4. num_done \in 0..(Size - 1)
    BY <2>1 DEF TypeQueues, Size
  <2>. QED  BY <2>1, <2>2, <2>3, <2>4, Zenon, ZenonT(60)
       DEF TypeThreads, TypeQueues, TypeConn, TypeOK
<1>. QED  BY <1>1, InductiveInvariant, PTL

\* nfs_init_cb_data: a thread never adds a second context, although it searches the list
\* without rpc_mutex.
THEOREM ContextsUnique == Spec => []OneContext
<1>1. IInv => OneContext
  BY DEF IInv, ContextOK, IsInjective, OneContext, TypeThreads
<1>. QED  BY <1>1, InductiveInvariant, PTL

\* rpc_queue_pdu, the callbacks and wait_for_nfs_reply: a PDU whose thread waits is in one
\* queue or in the service thread's hands, or the semaphore is posted.
THEOREM WakeupNeverLost == Spec => []NoLostWakeup
<1>1. ASSUME Placed PROVE NoLostWakeup
  <2> SUFFICES ASSUME NEW t \in Threads, t \in Flying
               PROVE  Cardinality({q \in 1..4 : t \in
                          CASE q = 1 -> Range(outqueue) [] q = 2 -> waitpdu
                            [] q = 3 -> Range(todo)
                            [] q = 4 -> {u \in Threads : sem[u] = 1}}) = 1
    BY Zenon, ZenonT(60) DEF NoLostWakeup, Flying
  <2> DEFINE S == {q \in 1..4 : t \in CASE q = 1 -> Range(outqueue) [] q = 2 -> waitpdu
                                        [] q = 3 -> Range(todo)
                                        [] q = 4 -> {u \in Threads : sem[u] = 1}}
  <2>1. /\ 1 \in S <=> t \in Range(outqueue)
        /\ 2 \in S <=> t \in waitpdu
        /\ 3 \in S <=> t \in Range(todo)
        /\ 4 \in S <=> t \in Posted
    BY DEF Posted
  <2>2. \A x \in S : x = 1 \/ x = 2 \/ x = 3 \/ x = 4
    OBVIOUS
  <2> HIDE DEF S
  <2>3. \E x : S = {x}
    <3>2. 1 \in S \/ 2 \in S \/ 3 \in S \/ 4 \in S
      BY <1>1, <2>1, Zenon, ZenonT(60) DEF Placed
    <3>3. /\ ~(1 \in S /\ 2 \in S) /\ ~(1 \in S /\ 3 \in S) /\ ~(2 \in S /\ 3 \in S)
          /\ ~(4 \in S /\ (1 \in S \/ 2 \in S \/ 3 \in S))
      BY <1>1, <2>1, Zenon, ZenonT(60) DEF Placed
    <3>4. \A x, y \in S : x = y
      BY <2>2, <3>3
    <3>5. PICK x \in S : TRUE
      BY <3>2
    <3>6. S = {x}
      BY <3>4, <3>5
    <3>. QED  BY <3>6
  <2>4. Cardinality(S) = 1
    BY <2>3, FS_Singleton
  <2>. QED  BY <2>4 DEF S
<1>2. IInv => Placed
  BY DEF IInv
<1>. QED  BY <1>1, <1>2, InductiveInvariant, PTL

-----------------------------------------------------------------------------
(* What a writev() sends, for NfsStreamProofs.                             *)

\* A part of the PDU of t.
Piece(t, p) == [call |-> Call(t), xid |-> pxid[t], part |-> p]

\* The threads whose call has no PDU in a queue yet, and those that have one allocated.
Early == {t \in Threads : pc[t] \in {"context", "open", "allocate", "queue"}}
Allocated == {t \in Threads : pc[t] \in {"queue", "head", "write", "account", "wait"}}

\* A call that is not queued, and one that has not been made, have no PDU in outqueue.
LEMMA QueuedCalls ==
    ASSUME IInv
    PROVE  /\ outqueue \in Seq(Threads) /\ Len(outqueue) \in Nat /\ num_done \in 0..1
           /\ \A i \in 1..Len(outqueue) : outqueue[i] \in Flying
           /\ \A i, j \in 1..Len(outqueue) : outqueue[i] = outqueue[j] => i = j
           /\ waitpdu \subseteq Flying /\ Pending \in Nat
           /\ Flying \subseteq Allocated /\ Flying \cap Early = {}
<1>1. outqueue \in Seq(Threads) /\ Len(outqueue) \in Nat /\ num_done \in 0..1
  BY DEF IInv, TypeQueues
<1>2. Range(outqueue) \subseteq Flying /\ waitpdu \subseteq Flying /\ IsInjective(outqueue)
  BY DEF IInv, Placed
<1>3. Pending \in Nat
  BY DEF Pending, IInv, TypeQueues
<1>4. Flying \subseteq Allocated /\ Flying \cap Early = {}
  BY DEF Flying, Allocated, Early
<1>. QED  BY <1>1, <1>2, <1>3, <1>4 DEF Range, IsInjective

\* rpc_write_to_socket hands the pieces of the queued PDUs to writev() in order.
LEMMA UnsentPieces ==
    ASSUME IInv, NEW k \in 1..(Size * Len(outqueue) - num_done)
    PROVE  \E i \in 1..Len(outqueue), p \in 1..Size :
              Size * (i - 1) + p = num_done + k /\ Unsent[k] = Piece(outqueue[i], p)
<1> DEFINE j == num_done + k
           n == Len(outqueue)
           i == ((j - 1) \div 2) + 1
           p == ((j - 1) % 2) + 1
<1>1. n \in Nat /\ num_done \in 0..1
  BY QueuedCalls
<1>2. j \in Nat /\ 1 <= j /\ j <= 2 * n
  BY <1>1 DEF Size
<1>3. Unsent[k] = Part(j)
  BY UnsentType
<1> HIDE DEF j, n
<1>4. i \in 1..n /\ p \in 1..2 /\ 2 * (i - 1) + p = j
  BY <1>1, <1>2
<1>5. Part(j) = Piece(outqueue[i], p)
  BY DEF Part, Piece, Size
<1> HIDE DEF i, p
<1>. QED  BY <1>3, <1>4, <1>5, Zenon, ZenonT(60) DEF Size, j, n

\* Two pieces are the same only if they are one piece of one thread's PDU.
LEMMA PiecesDiffer ==
    ASSUME NEW t, NEW u, NEW p, NEW q, Piece(t, p) = Piece(u, q)
    PROVE  t = u /\ p = q
BY DEF Piece, Call


\* A step that puts the next n pieces behind what the connection carries.
Sends(n) ==
    /\ Pending' = n /\ Len(stream') = Len(stream) + n
    /\ \A k \in 1..Len(stream) : stream'[k] = stream[k]
    /\ \A k \in 1..n : \E i \in 1..Len(outqueue), p \in 1..Size :
          /\ Size * (i - 1) + p = num_done + k
          /\ stream'[Len(stream) + k] = Piece(outqueue[i], p)
    /\ \A e \in Range(stream') :
          e \in Range(stream) \/ \E k \in 1..n : e = stream'[Len(stream) + k]

\* rpc_write_to_socket: the pieces a writev() accepts are those that follow num_done.
LEMMA WritevEffect ==
    ASSUME IInv, NEW a \in Actors, writev(a) PROVE \E n \in Nat : Sends(n)
<1>1. stream \in Seq(Bytes) /\ Len(stream) \in Nat
  BY DEF IInv, TypeConn
<1>2. CASE UNCHANGED <<rpc_mutex, written, stream>>
  <2>1. Pending' = 0
    BY <1>2, NoWriter DEF Pending, writev
  <2>. QED  BY <1>1, <1>2, <2>1 DEF Sends
<1>3. CASE ~UNCHANGED <<rpc_mutex, written, stream>>
  <2>1. PICK n \in IF ShortWrites THEN 1..Len(Unsent) ELSE {Len(Unsent)} :
           /\ written' = [written EXCEPT ![a] = n]
           /\ stream' = stream \o SubSeq(Unsent, 1, n)
    BY <1>3, Zenon, ZenonT(60) DEF writev
  <2>2. rpc_mutex' = a /\ a # Free
    BY <1>3, Names, Zenon, ZenonT(60) DEF writev, Writer, Actors
  <2>3. Pending' = n
    BY <2>1, <2>2 DEF Pending, IInv, TypeQueues
  <2>4. /\ Unsent \in Seq(Bytes) /\ Len(Unsent) = Size * Len(outqueue) - num_done
        /\ Len(Unsent) \in Nat /\ n \in 0..Len(Unsent)
    BY <2>1, UnsentType
  <2> DEFINE W == SubSeq(Unsent, 1, n)
  <2>5. W \in Seq(Bytes) /\ Len(W) = n /\ \A k \in 1..n : W[k] = Unsent[k]
    BY <2>4
  <2> HIDE DEF W
  <2>6. /\ Len(stream') = Len(stream) + n /\ DOMAIN stream' = 1..(Len(stream) + n)
        /\ \A k \in 1..(Len(stream) + n) :
              stream'[k] = IF k <= Len(stream) THEN stream[k] ELSE W[k - Len(stream)]
    BY <1>1, <2>1, <2>5 DEF W
  <2>7. ASSUME NEW k \in 1..n
        PROVE  \E i \in 1..Len(outqueue), p \in 1..Size :
                  /\ Size * (i - 1) + p = num_done + k
                  /\ stream'[Len(stream) + k] = Piece(outqueue[i], p)
    <3>1. k \in 1..(Size * Len(outqueue) - num_done)
      BY <2>4
    <3>2. stream'[Len(stream) + k] = Unsent[k]
      BY <1>1, <2>4, <2>5, <2>6
    <3>. QED  BY <3>1, <3>2, UnsentPieces
  <2>8. ASSUME NEW e \in Range(stream')
        PROVE  e \in Range(stream) \/ \E k \in 1..n : e = stream'[Len(stream) + k]
    <3>1. PICK k \in 1..(Len(stream) + n) : e = stream'[k]
      BY <2>6 DEF Range
    <3>2. CASE k <= Len(stream)
      BY <1>1, <2>6, <3>1, <3>2 DEF Range
    <3>3. CASE ~(k <= Len(stream))
      <4>1. k - Len(stream) \in 1..n /\ Len(stream) + (k - Len(stream)) = k
        BY <1>1, <2>4, <3>3
      <4>. QED  BY <3>1, <4>1
    <3>. QED  BY <3>2, <3>3
  <2>9. \A k \in 1..Len(stream) : stream'[k] = stream[k]
    BY <1>1, <2>4, <2>6
  <2>. QED  BY <2>3, <2>4, <2>6, <2>7, <2>8, <2>9 DEF Sends
<1>. QED  BY <1>2, <1>3

=============================================================================
