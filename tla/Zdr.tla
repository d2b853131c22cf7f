-------------------------------- MODULE Zdr --------------------------------
(***************************************************************************)
(* The marshalling library of lib/libnfs-zdr.c.  A buffer is a sequence of *)
(* bytes; a ZDR stream is a record                                         *)
(*   buf   the bytes (those written so far when encoding)                  *)
(*   pos   zdrs->pos                                                       *)
(*   size  zdrs->size                                                      *)
(*   ok    FALSE once a routine has returned FALSE                         *)
(* A routine zdr_T of the generated code is a description of the calls it  *)
(* makes, a record built by one of the constructors below, and Encode and  *)
(* Decode make the calls.  A C value is described by                       *)
(*   an integer; <<high, low>> for 64 bits; a sequence of bytes for opaque *)
(*   data and strings; a tuple for a struct; <<discriminant, arm>> for a   *)
(*   union; a sequence for an array; <<>> or <<value>> for a pointer.      *)
(* maxsize is not part of a description: no routine looks at it.           *)
(***************************************************************************)
EXTENDS Naturals, Sequences, SequencesExt, FiniteSets, TLC

-----------------------------------------------------------------------------
(***************************************************************************)
(* Descriptions                                                            *)
(***************************************************************************)
zdr_u_int == [k |-> "int"]
zdr_int == zdr_u_int
zdr_uint32_t == zdr_u_int
zdr_enum == zdr_u_int
zdr_bool == [k |-> "bool"]
zdr_uint64_t == [k |-> "hyper"]
zdr_int64_t == zdr_uint64_t
zdr_void == [k |-> "void"]
zdr_bytes == [k |-> "bytes"]
zdr_string == [k |-> "string"]
zdr_opaque(n) == [k |-> "opaque", n |-> n]
zdr_array(T) == [k |-> "array", T |-> T]
zdr_vector(n, T) == [k |-> "vector", n |-> n, T |-> T]
zdr_pointer(T) == [k |-> "pointer", T |-> T]

\* The calls of a struct, one after the other.
Struct(Ts) == [k |-> "struct", Ts |-> Ts]

\* A struct whose last field is a pointer to the same struct.
Chain(Ts) == [k |-> "chain", Ts |-> Ts]

\* switch (discriminant): arms is a function from the cases to what they call, Default
\* what is called in every other case, zdr_void if nothing is.
Switch(D, arms, Default) == [k |-> "union", D |-> D, arms |-> arms, Default |-> Default]

\* Cases that call the same routine.
Cases(S, T) == [c \in S |-> T]

\* default: return FALSE.
Refuse == [k |-> "false"]

\* uint32_t read ahead of the value and left for the next routine (zdr_READ4resok).
Peek == [k |-> "peek"]

Arm(U, d) == IF d \in DOMAIN U.arms THEN U.arms[d] ELSE U.Default

-----------------------------------------------------------------------------
(***************************************************************************)
(* libnfs_zdrmem_create                                                    *)
(***************************************************************************)
Encoder(size) == [buf |-> <<>>, pos |-> 0, size |-> size, ok |-> TRUE]
Decoder(bytes) == [buf |-> bytes, pos |-> 0, size |-> Len(bytes), ok |-> TRUE]

Fail(z) == [z EXCEPT !.ok = FALSE]

\* pos rounded up to a multiple of four.
RoundUp(n) == ((n + 3) \div 4) * 4

\* htonl and ntohl.
Word(n) == <<n \div 16777216, (n \div 65536) % 256, (n \div 256) % 256, n % 256>>
FromWord(w) == ((w[1] * 256 + w[2]) * 256 + w[3]) * 256 + w[4]

\* memcpy between a value and &zdrs->buf[zdrs->pos].
Store(z, bytes) == [z EXCEPT !.buf = @ \o bytes, !.pos = @ + Len(bytes)]
Load(z, n) == SubSeq(z.buf, z.pos + 1, z.pos + n)
Skip(z, n) == [z EXCEPT !.pos = @ + n]

Zeros(n) == [i \in 1..n |-> 0]

\* The test every routine but libnfs_zdr_opaque begins with.
Fits(z, n) == z.pos + n <= z.size

-----------------------------------------------------------------------------
(***************************************************************************)
(* ZDR_ENCODE                                                              *)
(***************************************************************************)
EncodeUInt(z, n) == IF Fits(z, 4) THEN Store(z, Word(n)) ELSE Fail(z)

EncodeUInt64(z, u) ==
  IF Fits(z, 8) THEN Store(z, Word(u[1]) \o Word(u[2])) ELSE Fail(z)

\* The size is not tested here.
EncodeOpaque(z, bytes) ==
  Store(z, bytes \o Zeros(RoundUp(z.pos + Len(bytes)) - (z.pos + Len(bytes))))

\* zdr_bytes, and zdr_string with strlen().
EncodeBytes(z, bytes) ==
  LET l == EncodeUInt(z, Len(bytes))
  IN  IF l.ok /\ Fits(l, Len(bytes)) THEN EncodeOpaque(l, bytes) ELSE Fail(z)

RECURSIVE Encode(_, _, _), EncodeAll(_, _, _, _)

\* proc for each of the values from the i-th on.
EncodeAll(z, Ts, vs, i) ==
  IF i > Len(vs) \/ ~z.ok THEN z ELSE EncodeAll(Encode(z, Ts[i], vs[i]), Ts, vs, i + 1)

Encode(z, T, v) ==
  CASE T.k = "int" -> EncodeUInt(z, v)
    [] T.k = "bool" -> EncodeUInt(z, v)
    [] T.k = "hyper" -> EncodeUInt64(z, v)
    [] T.k = "void" -> z
    [] T.k \in {"bytes", "string"} -> EncodeBytes(z, v)
    [] T.k = "opaque" -> EncodeOpaque(z, v)
    [] T.k = "struct" -> EncodeAll(z, T.Ts, v, 1)
    [] T.k = "chain" -> EncodeAll(z, Append(T.Ts, zdr_pointer(T)), v, 1)
    [] T.k = "array" ->
         LET l == EncodeUInt(z, Len(v))
         IN  IF l.ok THEN EncodeAll(l, [i \in 1..Len(v) |-> T.T], v, 1) ELSE l
    [] T.k = "vector" -> EncodeAll(z, [i \in 1..T.n |-> T.T], v, 1)
    [] T.k = "pointer" ->
         LET more == EncodeUInt(z, Len(v))
         IN  IF more.ok /\ v # <<>> THEN Encode(more, T.T, v[1]) ELSE more
    [] T.k = "union" ->
         LET d == Encode(z, T.D, v[1])
         IN  IF d.ok THEN Encode(d, Arm(T, v[1]), v[2]) ELSE d
    [] T.k = "false" -> Fail(z)

-----------------------------------------------------------------------------
(***************************************************************************)
(* ZDR_DECODE: what is left of the stream, and the value                   *)
(***************************************************************************)
Result(z, v) == [z |-> z, v |-> v]

DecodeUInt(z) ==
  IF Fits(z, 4) THEN Result(Skip(z, 4), FromWord(Load(z, 4))) ELSE Result(Fail(z), 0)

DecodeUInt64(z) ==
  IF Fits(z, 8)
  THEN Result(Skip(z, 8), <<FromWord(Load(z, 4)), FromWord(Load(Skip(z, 4), 4))>>)
  ELSE Result(Fail(z), <<0, 0>>)

DecodeOpaque(z, n) == Result([z EXCEPT !.pos = RoundUp(@ + n)], Load(z, n))

DecodeBytes(z) ==
  LET l == DecodeUInt(z)
  IN  IF l.z.ok /\ Fits(l.z, l.v) THEN DecodeOpaque(l.z, l.v) ELSE Result(Fail(z), <<>>)

\* The bytes up to the first NUL.
CString(bytes) ==
  SubSeq(bytes, 1, CHOOSE n \in 0..Len(bytes) : /\ \A i \in 1..n : bytes[i] # 0
                                                /\ n = Len(bytes) \/ bytes[n + 1] = 0)

\* The string is left in place when the byte after it is a NUL inside the buffer; then
\* it is read up to the first NUL.  Otherwise it is copied and terminated.
DecodeString(z) ==
  LET b == DecodeBytes(z)
  IN  IF b.z.ok THEN Result(b.z, CString(b.v)) ELSE b

RECURSIVE Decode(_, _), DecodeAll(_, _, _, _)

DecodeAll(z, Ts, i, vs) ==
  IF i > Len(Ts) \/ ~z.ok THEN Result(z, vs)
  ELSE LET r == Decode(z, Ts[i]) IN DecodeAll(r.z, Ts, i + 1, Append(vs, r.v))

Decode(z, T) ==
  CASE T.k = "int" -> DecodeUInt(z)
    [] T.k = "bool" -> DecodeUInt(z)
    [] T.k = "hyper" -> DecodeUInt64(z)
    [] T.k = "void" -> Result(z, <<>>)
    [] T.k = "bytes" -> DecodeBytes(z)
    [] T.k = "string" -> DecodeString(z)
    [] T.k = "opaque" -> DecodeOpaque(z, T.n)
    [] T.k = "struct" -> DecodeAll(z, T.Ts, 1, <<>>)
    [] T.k = "chain" -> DecodeAll(z, Append(T.Ts, zdr_pointer(T)), 1, <<>>)
    [] T.k = "array" ->
         LET l == DecodeUInt(z)
         IN  IF l.z.ok THEN DecodeAll(l.z, [i \in 1..l.v |-> T.T], 1, <<>>)
             ELSE Result(l.z, <<>>)
    [] T.k = "vector" -> DecodeAll(z, [i \in 1..T.n |-> T.T], 1, <<>>)
    [] T.k = "pointer" ->
         LET more == DecodeUInt(z)
         IN  IF ~more.z.ok \/ more.v = 0 THEN Result(more.z, <<>>)
             ELSE LET r == Decode(more.z, T.T) IN Result(r.z, <<r.v>>)
    [] T.k = "union" ->
         LET d == Decode(z, T.D)
             r == Decode(d.z, Arm(T, d.v))
         IN  IF d.z.ok THEN Result(r.z, <<d.v, r.v>>) ELSE d
    [] T.k = "peek" -> LET l == DecodeUInt(z) IN Result([l.z EXCEPT !.pos = z.pos], l.v)
    [] T.k = "false" -> Result(Fail(z), <<>>)

-----------------------------------------------------------------------------
(***************************************************************************)
(* The header of a call and of a reply                                     *)
(***************************************************************************)
CALL == 0
REPLY == 1
opaque_auth == Struct(<<zdr_u_int, zdr_bytes>>)

rpc_call_body ==
  Struct(<<zdr_u_int, zdr_u_int, zdr_u_int, zdr_u_int, opaque_auth, opaque_auth>>)

mismatch_info == Struct(<<zdr_u_int, zdr_u_int>>)

\* results.proc is the routine of the procedure.
accepted_reply(proc) ==
  Struct(<<opaque_auth,
           Switch(zdr_u_int, 0 :> proc @@ 2 :> mismatch_info, zdr_void)>>)

rejected_reply ==
  Switch(zdr_u_int, 0 :> mismatch_info @@ 1 :> zdr_u_int, zdr_void)

rpc_reply_body(proc) ==
  Switch(zdr_u_int, 0 :> accepted_reply(proc) @@ 1 :> rejected_reply, Refuse)

rpc_msg(proc) ==
  Struct(<<zdr_u_int,
           Switch(zdr_u_int, CALL :> rpc_call_body @@ REPLY :> rpc_reply_body(proc), Refuse)>>)

AUTH_NONE == 0
AUTH_SYS == 1

authnone_create == <<AUTH_NONE, <<>>>>

\* libnfs_authunix_create, for a host of the given name at time 0: the sizes are counted
\* as in the code, and the groups are at most sixteen.
authunix_create(host, uid, gid, groups) ==
  <<AUTH_SYS, Word(0) \o Word(Len(host)) \o host \o Zeros(RoundUp(Len(host)) - Len(host))
       \o Word(uid) \o Word(gid) \o Word(Len(groups))
       \o FlattenSeq([i \in 1..Len(groups) |-> Word(groups[i])])>>

-----------------------------------------------------------------------------
(***************************************************************************)
(* Values to marshal: a smallest value of a description, and values that   *)
(* differ from it in one place, so that every case of every switch, empty  *)
(* and non-empty lists and lengths on both sides of a multiple of four all *)
(* occur.                                                                  *)
(***************************************************************************)
RECURSIVE Least(_), Samples(_)

Least(T) ==
  CASE T.k \in {"int", "bool", "peek"} -> 0
    [] T.k = "hyper" -> <<0, 0>>
    [] T.k \in {"void", "bytes", "string", "array", "pointer"} -> <<>>
    [] T.k = "opaque" -> Zeros(T.n)
    [] T.k = "struct" -> [i \in 1..Len(T.Ts) |-> Least(T.Ts[i])]
    [] T.k = "chain" -> Append([i \in 1..Len(T.Ts) |-> Least(T.Ts[i])], <<>>)
    [] T.k = "vector" -> [i \in 1..T.n |-> Least(T.T)]
    [] T.k = "union" ->
         LET d == CHOOSE e \in DOMAIN T.arms : \A f \in DOMAIN T.arms : e <= f
         IN  <<d, Least(T.arms[d])>>

\* A discriminant that T has no case for.
OtherCase(T) == IF T.D.k = "bool" THEN {0, 1} \ DOMAIN T.arms ELSE {66051}

Samples(T) ==
  CASE T.k \in {"int", "peek"} -> {0, 66051}
    [] T.k = "bool" -> {0, 1}
    [] T.k = "hyper" -> {<<0, 0>>, <<1, 66051>>}
    [] T.k = "void" -> {<<>>}
    [] T.k \in {"bytes", "string"} -> {<<>>, <<97>>, <<97, 98, 99, 100>>}
    [] T.k = "opaque" -> {[i \in 1..T.n |-> i]}
    [] T.k = "struct" ->
         {Least(T)} \cup
         UNION {{[Least(T) EXCEPT ![i] = v] : v \in Samples(T.Ts[i])} : i \in 1..Len(T.Ts)}
    [] T.k = "chain" ->
         LET S == Samples(Struct(T.Ts))
         IN  {Append(v, <<>>) : v \in S} \cup {Append(v, <<Least(T)>>) : v \in S}
    [] T.k = "array" ->
         {<<>>, <<Least(T.T), Least(T.T)>>} \cup {<<v>> : v \in Samples(T.T)}
    [] T.k = "vector" -> {[Least(T) EXCEPT ![T.n] = v] : v \in Samples(T.T)}
    [] T.k = "pointer" -> {<<>>} \cup {<<v>> : v \in Samples(T.T)}
    [] T.k = "union" ->
         UNION {{<<d, v>> : v \in Samples(T.arms[d])} : d \in DOMAIN T.arms} \cup
         (IF T.Default = Refuse THEN {} ELSE OtherCase(T) \X Samples(T.Default))

=============================================================================
