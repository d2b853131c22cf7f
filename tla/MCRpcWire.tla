----------------------------- MODULE MCRpcWire -----------------------------
(***************************************************************************)
(* RpcWire for TLC: every stub with arguments and results that differ in   *)
(* one place from a smallest one, and READs and WRITEs with vectors and    *)
(* answers of several sizes.                                               *)
(***************************************************************************)
EXTENDS RpcWire

CONSTANTS WriteVectors, PieceLengths

NewCall(task, args, data, vecs, hint) ==
  [task |-> Key(task), args |-> args, data |-> data, vecs |-> vecs, hint |-> hint]

\* The data of READ and WRITE is not marshalled with a COMPOUND.
PlainArgs(t) ==
  IF IsCompound(t.id)
  THEN {v \in Samples(t.args) : \A i \in DOMAIN v[3] : v[3][i][1] # OP_WRITE}
  ELSE Samples(t.args)

PlainCalls(t) ==
  {NewCall(t, a, <<>>, <<>>, h) :
     a \in PlainArgs(t), h \in IF IsCompound(t.id) THEN {0, 64} ELSE {0}}

fh == <<1, 2, 3, 4, 5>>
Read3 == <<fh, <<0, 100>>, 9>>
Write3 == <<fh, <<0, 100>>, 9, 2>>
Compound(op) == <<<<>>, 0, <<<<OP_PUTFH, fh>>, op>>>>
Read4 == Compound(<<OP_READ, <<<<1, Zeros(12)>>, <<0, 100>>, 80>>>>)
Write4 == Compound(<<OP_WRITE, <<<<1, Zeros(12)>>, <<0, 100>>, 2>>>>)

\* Vectors of the given lengths, with different bytes.
Vectors(lens) == [i \in DOMAIN lens |-> [j \in 1..lens[i] |-> 10 * i + j]]

Read3Calls ==
  {NewCall(rpc_nfs3_readv_task, Read3, <<>>, Vectors(v), 0) :
     v \in {<<>>, <<9>>, <<3, 6>>, <<2, 0, 7>>}}
Read4Calls ==
  {NewCall(rpc_nfs4_readv_task, Read4, <<>>, Vectors(v), 0) : v \in {<<>>, <<80>>, <<70, 3, 7>>}}

WriteCalls(t, a) == {NewCall(t, a, <<>>, Vectors(l), 0) : l \in WriteVectors}
Write3Calls ==
  {NewCall(rpc_nfs3_writev_task, Write3, d, <<>>, 0) : d \in {<<1, 2, 3, 4, 5>>, <<1, 2, 3, 4>>}}
    \cup {NewCall(rpc_nfs3_writev_task, Write3, <<1>>, Vectors(<<2, 3>>), 0)}
    \cup WriteCalls(rpc_nfs3_writev_task, Write3)

MCCalls ==
  [k \in DOMAIN Tasks |->
     CASE k = Key(rpc_nfs3_readv_task) -> Read3Calls
       [] k = Key(rpc_nfs4_readv_task) -> Read4Calls
       [] k = Key(rpc_nfs3_writev_task) -> Write3Calls
       [] k = Key(rpc_nfs4_writev_task) -> WriteCalls(rpc_nfs4_writev_task, Write4)
       [] OTHER -> PlainCalls(Tasks[k])]

-----------------------------------------------------------------------------
Accepted(res) == <<MSG_ACCEPTED, <<authnone_create, <<SUCCESS, res>>>>>>

Bytes(n) == [i \in 1..n |-> 100 + i]

Read3Answers ==
  {Accepted(<<NFS3_OK, <<a, n, 1, Bytes(n)>>>>) :
     a \in {<<0, <<>>>>, <<1, Least(zdr_fattr3)>>}, n \in {0, 3, 4, 5, 9}}
    \cup {Accepted(<<5, <<0, <<>>>>>>)}
Read4Answers ==
  {Accepted(<<NFS4_OK, <<>>, <<<<OP_PUTFH, NFS4_OK>>,
                               <<OP_READ, <<NFS4_OK, <<1, Bytes(n)>>>>>>>>>>) :
     n \in {0, 70, 75, 80}}

\* The replies with no data of a READ in them.
Plain(S) ==
  {b \in S : b[1] = MSG_ACCEPTED /\ b[2][2][1] = SUCCESS =>
               \A i \in DOMAIN b[2][2][2][3] : b[2][2][2][3][i][1] # OP_READ}

PlainAnswers ==
  [k \in DOMAIN Tasks |->
     LET S == Samples(rpc_reply_body(Tasks[k].res))
     IN  IF IsCompound(SubSeq(k, 1, 3)) THEN Plain(S) ELSE S]

LeastAnswer == [k \in DOMAIN Tasks |-> Accepted(Least(Tasks[k].res))]

MCAnswers(c) ==
  CASE c.task = Key(rpc_nfs3_readv_task) -> Read3Answers
    [] c.task = Key(rpc_nfs4_readv_task) -> Read4Answers
    [] OTHER -> IF c.args = Least(Stub(c).args) \/ c.data # <<>> THEN PlainAnswers[c.task]
                ELSE {LeastAnswer[c.task]}

\* Answers are cut up, and surrounded by late ones, for the READs and one other call.
Watched(c) == IsRead(c) \/ IdOf(c) = rpc_nfs3_getattr_task.id
MCPieces(c) == IF Watched(c) THEN 1..PieceLengths ELSE {}
MCLate(c) == IF Watched(c) THEN BOOLEAN ELSE {FALSE}

\* Lengths of vectors.
Few == {<<>>, <<5>>, <<2, 3>>, <<1, 0, 2>>, <<1, 2, 3, 2>>}

=============================================================================
