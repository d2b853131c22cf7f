------------------------------ MODULE RpcWire ------------------------------
(***************************************************************************)
(* One call over TCP from the stub to its callback, byte by byte: a stub   *)
(* of RpcStubs marshals the arguments into the vectors of a PDU (lib/pdu.c,*)
(* lib/init.c), the record goes to the server, the server reads the call   *)
(* and answers, and rpc_read_from_socket (lib/socket.c) takes the answer   *)
(* from the socket as its bytes arrive.  The data of a READ is read into   *)
(* the vectors of the application and the data of a WRITE is sent from     *)
(* them, without a copy.  The connection may be lost while the answer is   *)
(* read; then the call is sent and answered again.  Queues, timeouts and   *)
(* short writes are those of RpcTransport.                                 *)
(***************************************************************************)
EXTENDS RpcStubs, FiniteSetsExt

CONSTANTS
  ZDR_ENCODEBUF_MINSIZE,  \* size of the marshalling buffer
  RPC_FAST_VECTORS,       \* vectors in a PDU without a hint
  RPC_MAX_VECTORS,        \* vectors readv() can handle
  ZCRP,                   \* bytes of the answer to a READ that go into inbuf
  MAX_FRAGMENT_SIZE,      \* longest record
  Calls,                  \* for each stub, the calls made: [task, args, data, vecs, hint]
  Answers(_),             \* what a server may answer to a call: reply bodies
  Late(_),                \* whether late answers to another call come with the answer
  Pieces(_),              \* for a call, how many bytes may arrive before the others
  MaxPieces,              \* bound: how often a part of the answer arrives by itself
  MaxHangups              \* bound: lost connections

VARIABLES
  call,     \* the call, or NoCall
  phase,    \* idle, queued, waiting, done or refused
  wire,     \* the record of the PDU
  seen,     \* what the server has read: <<>> or <<call>>
  answer,   \* what it has answered on this connection: <<>> or <<body>>
  net,      \* [bytes: sent by the server, ends: of its records, last: of the answer, taken]
  rd,       \* the fields of rpc and rpc->pdu the reader works on
  pieces,   \* parts of answers that arrived so far
  hangups   \* lost connections so far

vars == <<call, phase, wire, seen, answer, net, rd, pieces, hangups>>

NoCall == <<>>

\* A call names its stub by procedure and kind.
Key(task) == Append(task.id, task.kind)

Tasks ==
  LET all == PlainTasks \o <<rpc_nfs3_readv_task, rpc_nfs3_writev_task,
                             rpc_nfs4_readv_task, rpc_nfs4_writev_task>>
  IN  [k \in {Key(all[i]) : i \in DOMAIN all} |->
         all[CHOOSE i \in DOMAIN all : Key(all[i]) = k]]

Stub(c) == Tasks[c.task]
IdOf(c) == SubSeq(c.task, 1, 3)
KindOf(c) == c.task[4]

-----------------------------------------------------------------------------
(***************************************************************************)
(* The PDU: z is pdu->zdr, out the vectors (the first one is the record    *)
(* marker), cap pdu->out.iov_capacity, ok FALSE once the stub gives up.    *)
(***************************************************************************)
xid == 7
RPC_MSG_VERSION == 2

\* rpc->auth, as rpc_set_auxiliary_gids makes it.
auth == authunix_create(<<104, 111>>, 1, 2, <<3>>)

Header(id) ==
  <<xid, <<CALL, <<RPC_MSG_VERSION, id[1], id[2], id[3],
                   IF id[3] = 0 THEN authnone_create ELSE auth, authnone_create>>>>>>

rpc_add_iovector(p, bytes) ==
  IF Len(p.out) >= p.cap THEN [p EXCEPT !.ok = FALSE] ELSE [p EXCEPT !.out = Append(@, bytes)]

\* Mutant: the hint of the stub is ignored.
rpc_allocate_pdu2_Mutant(id, alloc_hint, iovcnt_hint) ==
  LET z == Encode(Encoder(ZDR_ENCODEBUF_MINSIZE - 4), rpc_msg(zdr_void), Header(id))
  IN  [z |-> z, out |-> <<Zeros(4), z.buf>>, ok |-> z.ok,
       cap |-> IF iovcnt_hint > RPC_FAST_VECTORS THEN iovcnt_hint ELSE RPC_FAST_VECTORS]

rpc_allocate_pdu2(id, alloc_hint, iovcnt_hint) ==
  LET z == Encode(Encoder(ZDR_ENCODEBUF_MINSIZE + alloc_hint - 4), rpc_msg(zdr_void), Header(id))
  IN  [z |-> z, out |-> <<Zeros(4), z.buf>>, ok |-> z.ok,
       cap |-> IF iovcnt_hint > RPC_FAST_VECTORS THEN iovcnt_hint ELSE RPC_FAST_VECTORS]

Marshal(p, T, v) == LET z == Encode(p.z, T, v) IN [p EXCEPT !.z = z, !.ok = @ /\ z.ok]

\* A vector for what was marshalled since start.
AddMarshalled(p, start) == rpc_add_iovector(p, SubSeq(p.z.buf, start + 1, p.z.pos))

RECURSIVE AddVectors(_, _)
AddVectors(p, vecs) ==
  IF vecs = <<>> THEN p ELSE AddVectors(rpc_add_iovector(p, Head(vecs)), Tail(vecs))

\* The top bit marks the last fragment of a record.
Marker(size) == [Word(size) EXCEPT ![1] = @ + 128]

Size(out) == Len(FlattenSeq(Tail(out)))

\* Mutant: the record marker is counted with what has a vector.
rpc_queue_pdu_Mutant(p) ==
  LET size == Size(p.out)
      q == IF p.z.pos > size + 4 THEN rpc_add_iovector(p, SubSeq(p.z.buf, size + 1, p.z.pos)) ELSE p
  IN  [q EXCEPT !.out[1] = Marker(Size(q.out))]

\* The vectors, the rest of the marshalling buffer and the record marker.
rpc_queue_pdu(p) ==
  LET size == Size(p.out)
      q == IF p.z.pos > size THEN rpc_add_iovector(p, SubSeq(p.z.buf, size + 1, p.z.pos)) ELSE p
  IN  [q EXCEPT !.out[1] = Marker(Size(q.out))]

-----------------------------------------------------------------------------
(***************************************************************************)
(* The stubs: the PDU they queue                                           *)
(***************************************************************************)
TotalLength(vecs) == Len(FlattenSeq(vecs))

AllocHint(c, stub) == IF stub.hint = 0 THEN c.hint ELSE c.args[stub.hint]

\* READs have no hint.
PlainTask(c, stub) ==
  rpc_queue_pdu(Marshal(rpc_allocate_pdu2(stub.id, AllocHint(c, stub), 0), stub.args, c.args))

IsV3(c) == IdOf(c)[2] = NFS_V3

\* An NFS 3 WRITE may have its data in args->data instead of in vectors.
WriteTask(c, stub) ==
  LET vecs == IF c.vecs = <<>> THEN <<c.data>> ELSE c.vecs
      hint == IF IsV3(c) THEN Len(c.vecs) + 4 ELSE Len(c.vecs)
      len  == TotalLength(vecs)
      p0 == rpc_allocate_pdu2(stub.id, 0, hint)
      p1 == AddMarshalled(Marshal(p0, stub.args, c.args), p0.z.pos)
      p2 == AddMarshalled(Marshal(p1, zdr_u_int, len), p1.z.pos)
      p3 == AddVectors(p2, vecs)
      p4 == IF len % 4 = 0 THEN p3 ELSE rpc_add_iovector(p3, Zeros(4 - (len % 4)))
  IN  rpc_queue_pdu(p4)

\* What the stubs refuse before they allocate anything.
Invalid(c) ==
  CASE KindOf(c) = "plain" -> FALSE
    [] KindOf(c) = "read" -> c.vecs = <<>> \/ Len(c.vecs) > RPC_MAX_VECTORS
    [] KindOf(c) = "write" /\ IsV3(c) -> c.vecs # <<>> /\ c.data # <<>>
    [] KindOf(c) = "write" /\ ~IsV3(c) -> c.vecs = <<>>

Queued(c, stub) == IF KindOf(c) = "write" THEN WriteTask(c, stub) ELSE PlainTask(c, stub)

-----------------------------------------------------------------------------
(***************************************************************************)
(* The server.  It cuts the stream by the record markers and reads the     *)
(* arguments with the routine of the protocol; rpcbind and mountd of       *)
(* servers/ use the ones of their procedure tables.                        *)
(***************************************************************************)
\* The operations of a COMPOUND with the data of READ and WRITE in them.
nfs_argop4 == [zdr_nfs_argop4 EXCEPT !.arms[OP_WRITE] = zzdr_WRITE4args]
READ4res == Switch(zdr_nfsstat4, NFS4_OK :> zzdr_READ4resok, zdr_void)
nfs_resop4 == [zdr_nfs_resop4 EXCEPT !.arms[OP_READ] = READ4res]

pmap_pt ==
  <<PMAP_PROGRAM, PMAP_V2, 1>> :> zdr_PMAP2SETargs @@
  <<PMAP_PROGRAM, PMAP_V2, 2>> :> zdr_PMAP2UNSETargs @@
  <<PMAP_PROGRAM, PMAP_V2, 3>> :> zdr_PMAP2GETPORTargs @@
  <<PMAP_PROGRAM, PMAP_V2, 5>> :> zdr_PMAP2CALLITargs @@
  [p \in {<<PMAP_PROGRAM, v, n>> : v \in {PMAP_V3, PMAP_V4}, n \in 1..8 \ {4, 6}} |->
     (1 :> zdr_PMAP3SETargs @@ 2 :> zdr_PMAP3UNSETargs @@ 3 :> zdr_PMAP3GETADDRargs @@
      5 :> zdr_PMAP3CALLITargs @@ 7 :> zdr_pmap3_string_result @@
      8 :> zdr_PMAP3TADDR2UADDRargs)[p[3]]]

mount3_pt ==
  <<MOUNT_PROGRAM, MOUNT_V3, 1>> :> zdr_MOUNT3MNTargs @@
  <<MOUNT_PROGRAM, MOUNT_V3, 3>> :> zdr_MOUNT3UMNTargs

IsCompound(id) == id = <<NFS4_PROGRAM, NFS_V4, 1>>

ArgsOf(c) ==
  LET id == IdOf(c)
  IN  CASE id \in DOMAIN pmap_pt -> pmap_pt[id]
        [] id \in DOMAIN mount3_pt -> mount3_pt[id]
        [] IsCompound(id) -> Struct(<<zdr_utf8str_cs, zdr_uint32_t, zdr_array(nfs_argop4)>>)
        [] id = rpc_nfs3_writev_task.id -> zdr_WRITE3args
        [] OTHER -> Stub(c).args

ResOf(c) ==
  LET id == IdOf(c)
  IN  CASE IsCompound(id) -> Struct(<<zdr_nfsstat4, zdr_utf8str_cs, zdr_array(nfs_resop4)>>)
        [] id = rpc_nfs3_readv_task.id -> zdr_READ3res
        [] OTHER -> Stub(c).res

\* The length in a record marker; the top bit is not part of it.
Length(marker) == FromWord([marker EXCEPT ![1] = @ % 128])

\* The call as the server reads it, and whether that is all of the record.
Received(Args, record) ==
  LET size == Length(SubSeq(record, 1, 4))
      m == Decode(Decoder(SubSeq(record, 5, 4 + size)), rpc_msg(zdr_void))
      a == Decode(m.z, Args)
  IN  [msg |-> m.v, args |-> a.v, whole |-> /\ size = Len(record) - 4
                                            /\ a.z.ok
                                            /\ a.z.pos = size]

Reply(Res, body) ==
  LET z == Encode(Encoder(MAX_FRAGMENT_SIZE), rpc_msg(Res), <<xid, <<REPLY, body>>>>)
  IN  Marker(z.pos) \o z.buf

\* The late answer to an earlier call that has timed out.
LateReply ==
  LET z == Encode(Encoder(64), rpc_msg(zdr_void),
                  <<xid - 1, <<REPLY, <<0, <<authnone_create, <<0, <<>>>>>>>>>>>>)
  IN  Marker(z.pos) \o z.buf

-----------------------------------------------------------------------------
(***************************************************************************)
(* The cursor of a READ, pdu->in: iov are the parts of the application's   *)
(* vectors still to be filled, left is remaining_size, mem the vectors     *)
(* themselves.  sound is FALSE once an assertion of the code has failed.   *)
(***************************************************************************)
RECURSIVE Total(_)
Total(iov) == IF iov = <<>> THEN 0 ELSE iov[1].len + Total(Tail(iov))

\* remaining_size can only be 0 when iovcnt is 0 and v.v.
Asserted(r) == [r EXCEPT !.sound = @ /\ ((r.iov = <<>>) <=> (r.left = 0))]

RECURSIVE rpc_advance_cursor(_, _)
rpc_advance_cursor(r, len) ==
  IF len = 0 THEN Asserted(r)
  ELSE IF r.iov = <<>> \/ r.left < r.iov[1].len THEN [r EXCEPT !.sound = FALSE]
  ELSE IF r.iov[1].len > len
  THEN Asserted([r EXCEPT !.iov[1].at = @ + len, !.iov[1].len = @ - len, !.left = @ - len])
  ELSE rpc_advance_cursor([r EXCEPT !.iov = Tail(@), !.left = @ - r.iov[1].len],
                          len - r.iov[1].len)

Written(mem, v, bytes) ==
  [mem EXCEPT ![v.buf] = [i \in DOMAIN @ |-> IF i \in v.at + 1 .. v.at + Len(bytes)
                                             THEN bytes[i - v.at] ELSE @[i]]]

\* bytes are stored in the vectors, in order: memcpy, or readv().
RECURSIVE Filled(_, _, _)
Filled(mem, iov, bytes) ==
  IF iov = <<>> \/ bytes = <<>> THEN mem
  ELSE LET n == Min({iov[1].len, Len(bytes)})
       IN  Filled(Written(mem, iov[1], SubSeq(bytes, 1, n)), Tail(iov),
                  SubSeq(bytes, n + 1, Len(bytes)))

rpc_memcpy_cursor(r, src) ==
  rpc_advance_cursor([r EXCEPT !.mem = Filled(@, r.iov, src)], Len(src))

\* Mutant: the vector after the last byte is kept.
rpc_shrink_cursor_Mutant(r, new_len) ==
  IF r.left <= new_len THEN r
  ELSE LET done(i) == Total(SubSeq(r.iov, 1, i - 1))
           kept == {i \in DOMAIN r.iov : done(i) <= new_len}
       IN  Asserted([r EXCEPT !.left = new_len, !.iov =
             [i \in 1..Cardinality(kept) |->
                [r.iov[i] EXCEPT !.len = Min({@, new_len - done(i)})]]])

rpc_shrink_cursor(r, new_len) ==
  IF r.left <= new_len THEN r
  ELSE LET done(i) == Total(SubSeq(r.iov, 1, i - 1))
           kept == {i \in DOMAIN r.iov : done(i) < new_len}
       IN  Asserted([r EXCEPT !.left = new_len, !.iov =
             [i \in 1..Cardinality(kept) |->
                [r.iov[i] EXCEPT !.len = Min({@, new_len - done(i)})]]])

\* Mutant: only the vectors that were used up are restored.
rpc_reset_cursor_Mutant(r) ==
  LET used == {i \in DOMAIN r.ref : \A j \in DOMAIN r.iov : r.iov[j].buf # i}
      iov == [i \in DOMAIN r.ref |-> IF i \in used THEN r.ref[i]
                                     ELSE r.iov[CHOOSE j \in DOMAIN r.iov : r.iov[j].buf = i]]
  IN  [r EXCEPT !.iov = iov, !.left = Total(iov)]

rpc_reset_cursor(r) == [r EXCEPT !.iov = r.ref, !.left = Total(r.ref)]

-----------------------------------------------------------------------------
(***************************************************************************)
(* rpc_read_from_socket: state, inpos, size (pdu_size), rm (rm_xid[0]),    *)
(* buf (the bytes read for this state), count (pdu->read_count) and res    *)
(* (zdr_decode_buf) are fields of rpc and of the PDU; got is what the      *)
(* callback was called with.                                               *)
(***************************************************************************)
IsRead(c) == KindOf(c) = "read"

\* A reader for the call, with the cursor as the stub has set it up.
Reader(c) ==
  LET vecs == IF IsRead(c) THEN c.vecs ELSE <<>>
      ref == [i \in DOMAIN vecs |-> [buf |-> i, at |-> 0, len |-> Len(vecs[i])]]
  IN  [state |-> "READ_RM", inpos |-> 0, size |-> 8, rm |-> 0, buf |-> <<>>, count |-> 0,
       res |-> <<>>,
       ref |-> ref, iov |-> ref, left |-> Total(ref), sound |-> TRUE,
       mem |-> vecs, got |-> <<>>]

\* What is to be read next; the first word of a payload was read with the marker.
Prepare(c, r) ==
  CASE r.state = "READ_RM" -> [r EXCEPT !.size = 8, !.buf = <<>>]
    [] r.state = "READ_PAYLOAD" ->
         [r EXCEPT !.inpos = 4, !.size = IF IsRead(c) /\ r.rm > ZCRP THEN ZCRP ELSE r.rm]
    [] r.state = "READ_UNKNOWN" -> [r EXCEPT !.inpos = 4, !.size = r.rm]
    [] r.state = "READ_IOVEC" -> [r EXCEPT !.size = r.count]
    [] r.state = "READ_PADDING" -> [r EXCEPT !.size = r.rm, !.buf = <<>>]

rpc_finished_pdu(r) == [r EXCEPT !.state = "READ_RM", !.inpos = 0, !.got = Append(@, r.res)]

\* Mutant: what was read with the headers is not counted.
StartIovec_Mutant(r, pos, n) ==
  [r EXCEPT !.state = "READ_IOVEC", !.inpos = 0, !.count = @ - n, !.rm = @ - pos]

\* The rest of the data is read straight into the vectors.
StartIovec(r, pos, n) ==
  [r EXCEPT !.state = "READ_IOVEC", !.inpos = 0, !.count = @ - n, !.rm = @ - (pos + n)]

\* A READ has succeeded: its data begins in the buffer.
ReadSucceeded(r, z) ==
  LET l == DecodeUInt(z)
      pos == l.z.pos
      read_count == Min({l.v, Total(r.ref)})
      s == rpc_shrink_cursor([r EXCEPT !.count = read_count], read_count)
      n == Min({r.inpos - pos, read_count, s.left})
      t == rpc_memcpy_cursor(s, SubSeq(r.buf, pos + 1, pos + n))
  IN  IF ~l.z.ok THEN [r EXCEPT !.state = "error"]
      ELSE IF t.left = 0 THEN rpc_finished_pdu(t)
      ELSE StartIovec(t, pos, n)

MSG_ACCEPTED == 0
SUCCESS == 0

\* rpc_process_reply; Res is pdu->zdr_decode_fn.  A READ that is not accepted is in
\* RpcTransport.
ProcessReply(c, Res, r) ==
  LET m == Decode(Decoder(r.buf), rpc_msg(Res))
      body == m.v[2][2]
      accepted == body[2][2]
      s == [r EXCEPT !.res = <<"success", accepted[2]>>]
  IN  IF ~m.z.ok \/ body[1] # MSG_ACCEPTED \/ accepted[1] # SUCCESS
      THEN rpc_finished_pdu([r EXCEPT !.res = <<"error">>])
      ELSE IF ~IsRead(c) \/ (IsV3(c) /\ accepted[2][1] # NFS3_OK)
      THEN rpc_finished_pdu(s)
      ELSE ReadSucceeded(s, m.z)

\* The marker and the xid: the payload of a call, or of one that is not known.
MarkerRead(r) ==
  LET marker == SubSeq(r.buf, 1, 4)
      id == SubSeq(r.buf, 5, 8)
      rm == Length(marker)
  IN  IF marker[1] < 128 \/ rm \notin 8..MAX_FRAGMENT_SIZE THEN [r EXCEPT !.state = "error"]
      ELSE [r EXCEPT !.rm = rm, !.buf = id, !.inpos = 0, !.state =
              IF FromWord(id) = xid /\ r.got = <<>> THEN "READ_PAYLOAD" ELSE "READ_UNKNOWN"]

\* Mutant: the padding is not read.
IovecRead_Mutant(r) == rpc_finished_pdu([r EXCEPT !.count = @ - r.size, !.rm = @ - r.size])

\* The vectors are full: what is left of the record is padding.
IovecRead(r) ==
  LET s == [r EXCEPT !.count = @ - r.size, !.rm = @ - r.size]
  IN  IF s.rm = 0 THEN rpc_finished_pdu(s)
      ELSE [s EXCEPT !.state = "READ_PADDING", !.inpos = 0]

\* All the bytes asked for have been read.
Complete(c, Res, r) ==
  CASE r.state = "READ_RM" -> MarkerRead(r)
    [] r.state = "READ_UNKNOWN" -> [r EXCEPT !.state = "READ_RM", !.inpos = 0]
    [] r.state = "READ_PAYLOAD" -> ProcessReply(c, Res, r)
    [] r.state = "READ_IOVEC" -> IovecRead(r)
    [] r.state = "READ_PADDING" -> rpc_finished_pdu(r)

\* recv() into the buffer (garbage is not kept), or readv() into the vectors.
Recv(r, bytes) ==
  [r EXCEPT !.inpos = @ + Len(bytes),
            !.buf = IF r.state \in {"READ_RM", "READ_PAYLOAD"} THEN @ \o bytes ELSE @]
Readv(r, bytes) ==
  rpc_advance_cursor([r EXCEPT !.inpos = @ + Len(bytes), !.mem = Filled(@, r.iov, bytes)],
                     Len(bytes))

\* The loop: until there is nothing to read.
RECURSIVE Reading(_, _, _, _)
Reading(c, Res, r, bytes) ==
  LET s == IF r.inpos = 0 THEN Prepare(c, r) ELSE r
      vec == s.state = "READ_IOVEC"
      n == Min({Len(bytes), IF vec THEN s.left ELSE s.size - s.inpos})
      first == SubSeq(bytes, 1, n)
      t == IF vec THEN Readv(s, first) ELSE Recv(s, first)
      rest == SubSeq(bytes, n + 1, Len(bytes))
  IN  IF bytes = <<>> THEN s
      ELSE IF vec /\ (s.iov = <<>> \/ s.size - s.inpos > s.left) THEN [s EXCEPT !.sound = FALSE]
      ELSE IF t.inpos # t.size THEN Reading(c, Res, t, rest)
      ELSE LET u == Complete(c, Res, t)
           IN  IF u.state = "error" THEN u ELSE Reading(c, Res, u, rest)

-----------------------------------------------------------------------------
(***************************************************************************)
(* The call                                                                *)
(***************************************************************************)
NoAnswer == [bytes |-> <<>>, ends |-> {0}, last |-> 0, taken |-> 0]

Init ==
  /\ call = NoCall
  /\ phase = "idle"
  /\ wire = <<>>
  /\ seen = <<>>
  /\ answer = <<>>
  /\ net = NoAnswer
  /\ rd = <<>>
  /\ pieces = 0
  /\ hangups = 0

\* rpc_*_task.
CallStub(c) ==
  /\ phase = "idle"
  /\ call' = c
  /\ \E p \in {Queued(c, Stub(c))} :
       IF ~Invalid(c) /\ p.ok
       THEN phase' = "queued" /\ wire' = FlattenSeq(p.out) /\ rd' = Reader(c)
       ELSE phase' = "refused" /\ UNCHANGED <<wire, rd>>
  /\ UNCHANGED <<seen, answer, net, pieces, hangups>>

\* The record is sent, and the server reads it.
rpc_write_to_socket ==
  /\ phase = "queued"
  /\ phase' = "waiting"
  /\ seen' = <<Received(ArgsOf(call), wire)>>
  /\ UNCHANGED <<call, wire, answer, net, rd, pieces, hangups>>

\* The server answers; late answers to an earlier call may surround the answer.
Sent(reply, around) ==
  LET end == Len(around) + Len(reply)
  IN  [bytes |-> around \o reply \o around,
       ends |-> {0, Len(around), end, end + Len(around)}, last |-> end, taken |-> 0]

Serve(body, late) ==
  /\ phase = "waiting"
  /\ answer = <<>>
  /\ answer' = <<body>>
  /\ net' = Sent(Reply(ResOf(call), body), IF late THEN LateReply ELSE <<>>)
  /\ UNCHANGED <<call, phase, wire, seen, rd, pieces, hangups>>

\* rpc_reconnect_requeue: the answer is forgotten and the call is sent again.
Requeue(r) ==
  /\ rd' = rpc_reset_cursor([r EXCEPT !.state = "READ_RM", !.inpos = 0, !.buf = <<>>])
  /\ phase' = "queued"
  /\ answer' = <<>>
  /\ net' = NoAnswer

\* The next n bytes have arrived.
rpc_read_from_socket(n) ==
  /\ answer # <<>>
  /\ \E r \in {Reading(call, Stub(call).res, rd, SubSeq(net.bytes, net.taken + 1, net.taken + n))} :
       IF r.state = "error"
       THEN Requeue(r)
       ELSE /\ rd' = r
            /\ phase' = IF r.got = <<>> THEN phase ELSE "done"
            /\ net' = [net EXCEPT !.taken = @ + n]
            /\ answer' = answer
  /\ UNCHANGED <<call, wire, seen, hangups>>

\* The connection is lost.
Hangup ==
  /\ phase = "waiting"
  /\ hangups < MaxHangups
  /\ hangups' = hangups + 1
  /\ Requeue(rd)
  /\ UNCHANGED <<call, wire, seen, pieces>>

ReadAll ==
  /\ net.taken < Len(net.bytes)
  /\ rpc_read_from_socket(Len(net.bytes) - net.taken)
  /\ pieces' = pieces

ReadPiece(n) ==
  /\ pieces < MaxPieces
  /\ pieces' = pieces + 1
  /\ n < Len(net.bytes) - net.taken
  /\ rpc_read_from_socket(n)

Next ==
  \/ phase = "idle" /\ \E k \in DOMAIN Calls : \E c \in Calls[k] : CallStub(c)
  \/ rpc_write_to_socket
  \/ phase = "waiting" /\ \E body \in Answers(call), late \in Late(call) : Serve(body, late)
  \/ ReadAll
  \/ phase = "waiting" /\ \E n \in Pieces(call) : ReadPiece(n)
  \/ Hangup

Spec == Init /\ [][Next]_vars

-----------------------------------------------------------------------------
(***************************************************************************)
(* Properties                                                              *)
(***************************************************************************)
\* The arguments as the protocol has them, with the data of a WRITE at the end.
WithData(c) ==
  LET data == IF c.vecs = <<>> THEN c.data ELSE FlattenSeq(c.vecs)
  IN  CASE KindOf(c) # "write" -> c.args
        [] KindOf(c) = "write" /\ IsV3(c) -> Append(c.args, data)
        [] OTHER -> [c.args EXCEPT ![3][Len(c.args[3])][2] = Append(@, data)]

\* The server reads exactly what the application has passed to the stub, and nothing is
\* left of the record: header, arguments, and the vectors of a WRITE as one block with
\* its padding (rpc_queue_pdu, rpc_nfs3_writev_task, rpc_nfs4_writev_task); this holds
\* for the tables of the library's own servers too.
ArgsArrive ==
  seen # <<>> => seen[1] = [msg |-> Header(IdOf(call)), args |-> WithData(call), whole |-> TRUE]

\* The data a READ was answered with.
DataOf(c, res) == IF IsV3(c) THEN res[2][4] ELSE Last(res[3])[2][2][2]

\* The result of a READ without its data, as the callback gets it.
WithoutData(c, res) ==
  IF IsV3(c) THEN <<res[1], SubSeq(res[2], 1, 3)>>
  ELSE [res EXCEPT ![3][Len(res[3])][2][2][2] = Len(@)]

HasData(c, res) == IsRead(c) /\ (IsV3(c) => res[1] = NFS3_OK)

\* The callback is called once, with what the server has answered on this connection;
\* the data of a READ is in the vectors of the application, in order and from their
\* beginning, however the answer was cut up on its way and whatever an earlier answer,
\* lost with its connection, has left in them (rpc_read_from_socket, rpc_reset_cursor).
ResultArrives ==
  rd # <<>> /\ rd.got # <<>> =>
    LET body == answer[1]
        res == body[2][2][2]
    IN  IF body[1] # MSG_ACCEPTED \/ body[2][2][1] # SUCCESS THEN rd.got = <<<<"error">>>>
        ELSE IF ~HasData(call, res) THEN rd.got = <<<<"success", res>>>>
        ELSE /\ rd.got = <<<<"success", WithoutData(call, res)>>>>
             /\ SubSeq(FlattenSeq(rd.mem), 1, Len(DataOf(call, res))) = DataOf(call, res)

\* When the reader expects a record marker, it is at the beginning of a record: headers,
\* data, padding and records nobody waits for have been read to their last byte
\* (the accounting of rm_xid[0] in rpc_read_from_socket).
InStep ==
  rd # <<>> /\ rd.state = "READ_RM" => net.taken - rd.inpos \in net.ends

\* A call is completed as soon as the last byte of its answer has been read: the reader
\* never waits for bytes the server will not send.
NotWaiting ==
  answer # <<>> /\ net.taken >= net.last => rd.got # <<>>

\* The assertions of the cursor functions and of the reader hold: something is left to
\* be read if and only if there is a vector to read it into.
CursorSound == rd # <<>> => rd.sound

\* The call does not fit into the marshalling buffer.
TooLarge(c, stub) ==
  LET z == Encode(Encode(Encoder(100000), rpc_msg(zdr_void), Header(stub.id)), stub.args, c.args)
  IN  z.pos > ZDR_ENCODEBUF_MINSIZE + AllocHint(c, stub) - 4

\* A stub refuses a call only if its arguments are contradictory or do not fit into the
\* marshalling buffer: the vectors of a READ or WRITE fit into those of the PDU, and the
\* hint makes room for the operations of a COMPOUND (rpc_allocate_pdu2).
RefusedOnlyIfTooLarge ==
  phase = "refused" => Invalid(call) \/ TooLarge(call, Stub(call))

=============================================================================
