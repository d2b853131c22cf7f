----------------------------- MODULE RpcConnect -----------------------------
(***************************************************************************)
(* Connecting to a program of a server (lib/libnfs.c): the portmapper is   *)
(* asked for the port, unless it is known, and a NULL call is sent to the  *)
(* program.  Block "rpcdata" is struct rpc_cb_data and s.conn the handler  *)
(* that is told how it ended.                                              *)
(***************************************************************************)
EXTENDS NfsRequest

\* The programs are told apart by who waits for the connection.
NfsProgram == {"nfs3_mount_5_cb", "nfs4_mount_1_cb"}

free_rpc_cb_data(s) == {Free(s, "rpcdata")}

\* data->cb(rpc, status, ...); free_rpc_cb_data(data).  ConnectedEnd is this with the handler.
Connected(s, rep) == Tell(Use(s, "rpcdata"), rep)
ConnectedEnd(S, Cb(_, _)) == WhenDue(S, LAMBDA t, rep : Then(Cb(t, rep), free_rpc_cb_data))

\* Sends an RPC, or ends with an error.
Go(s, h) == Send(s, h, LAMBDA t : {t}, LAMBDA t : Connected(t, "ERROR"))

\* The reply to the NULL call that sets up the GSS context.
rpc_connect_program_6_cb(s, rep) == Connected(s, rep)

\* The reply to the NULL call.  With sec=krb5 the context with the server is set up next.
rpc_connect_program_5_cb(s, rep) ==
  IF rep = "ok" /\ "krb5" \in s.in.bits /\ s.conn \in NfsProgram
  THEN UNION {Connected(t, "ERROR") : t \in Fault(s)} \cup Go(s, "rpc_connect_program_6_cb")
  ELSE Connected(s, rep)

\* The connection to the program is up.
rpc_connect_program_4_cb(s, rep) ==
  IF rep = "ok" THEN Go(s, "rpc_connect_program_5_cb") ELSE Connected(s, rep)

\* The reply to GETPORT or GETADDR; "status" stands for port 0, a program that is not
\* registered.  The portmapper is disconnected.
rpc_connect_program_3_cb(s, rep) ==
  CASE rep = "ok" -> Go(s, "rpc_connect_program_4_cb")
    [] rep \in {"status", "NOENT", "NOTSUPP"} -> Connected(s, "ERROR")
    [] OTHER -> Connected(s, rep)

\* The reply to the portmapper's NULL call.
rpc_connect_program_2_cb(s, rep) ==
  IF rep = "ok" THEN Go(s, "rpc_connect_program_3_cb") ELSE Connected(s, rep)

\* The connection to the portmapper is up.
rpc_connect_program_1_cb(s, rep) ==
  IF rep = "ok" THEN Go(s, "rpc_connect_program_2_cb") ELSE Connected(s, rep)

\* The strdup of the server's name is not looked at.
StartConnection(s, conn, h) ==
  LET Start(t) == Send([t EXCEPT !.conn = conn], h,
                           LAMBDA u : {u}, LAMBDA u : Fails(Free(u, "rpcdata")))
  IN  Malloc(s, "rpcdata", "code", Start, Fails)

rpc_connect_port_async(s, conn) == StartConnection(s, conn, "rpc_connect_program_4_cb")

rpc_connect_program_async(s, conn) == StartConnection(s, conn, "rpc_connect_program_1_cb")

ConnectHandlers ==
  {"rpc_connect_program_1_cb", "rpc_connect_program_2_cb", "rpc_connect_program_3_cb",
   "rpc_connect_program_4_cb", "rpc_connect_program_5_cb", "rpc_connect_program_6_cb"}

\* The reply rep to the RPC, or the attempt to connect, that h waits for.
ConnectReply(s, h, rep) ==
  CASE h = "rpc_connect_program_1_cb" -> rpc_connect_program_1_cb(s, rep)
    [] h = "rpc_connect_program_2_cb" -> rpc_connect_program_2_cb(s, rep)
    [] h = "rpc_connect_program_3_cb" -> rpc_connect_program_3_cb(s, rep)
    [] h = "rpc_connect_program_4_cb" -> rpc_connect_program_4_cb(s, rep)
    [] h = "rpc_connect_program_5_cb" -> rpc_connect_program_5_cb(s, rep)
    [] h = "rpc_connect_program_6_cb" -> rpc_connect_program_6_cb(s, rep)

-----------------------------------------------------------------------------
(***************************************************************************)
(* mount_getexports_async(): the list of exports of a server.  "data1" is  *)
(* struct mount_cb_data, "path1" the server's name.                        *)
(***************************************************************************)

\* data->cb(rpc, e, ...); free_mount_cb_data(data)
ExportsDone(s, e) == {Free(Callback(Use(s, "data1"), e), "data1")}

\* The reply to EXPORT.  The connection is closed after a success.
mount_export_5_cb(s, rep) == ExportsDone(s, IF rep = "ok" THEN "ok" ELSE "EFAULT")

mount_export_4_cb(s, rep) ==
  IF rep # "ok" THEN ExportsDone(s, "EFAULT")
  ELSE Send(s, "mount_export_5_cb", LAMBDA t : {t}, LAMBDA t : ExportsDone(t, "ENOMEM"))

mount_getexports_async(s) ==
  LET Accepted(t) == {Return(t, "queued")}
      Rejected(t) == {Return(t, "refused")}
      Undo(t) == Rejected(Free(t, "data1"))
      Connect(t) == Returned(IF "mountport" \in t.in.bits
                             THEN rpc_connect_port_async(t, "mount_export_4_cb")
                             ELSE rpc_connect_program_async(t, "mount_export_4_cb"), Accepted, Undo)
  IN  Malloc(s, "data1", "code", LAMBDA t : Malloc(t, "path1", "data1", Connect, Undo), Rejected)

=============================================================================
