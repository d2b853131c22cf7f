----------------------------- MODULE RpcServer ------------------------------
(***************************************************************************)
(* The server side of the RPC layer: the table of the programs a context   *)
(* serves and the choice of the procedure that answers a call.             *)
(***************************************************************************)
EXTENDS Naturals, Sequences, Functions

VARIABLE answer    \* the reply sent by the last step, if it sent one

NoAnswer == [to |-> "nobody", proc |-> "", res |-> ""]

rpc_send_reply(to, proc, res) == answer' = [to |-> to, proc |-> proc, res |-> res]

Silent == answer' = NoAnswer

\* A list without its entry i.
RemoveAt(list, i) == SubSeq(list, 1, i - 1) \o SubSeq(list, i + 1, Len(list))

\* A new endpoint goes in front of the list.
rpc_register_service(endpoints, program, version, procs) ==
  <<[program |-> program, version |-> version, procs |-> procs]>> \o endpoints

\* A new context is given every entry of the table of the server: that of its UDP
\* socket when it starts, and one for each TCP connection it accepts.
Endpoints(server_procs) ==
  LET registered[n \in 0..Len(server_procs)] ==
        IF n = 0 THEN <<>>
        ELSE rpc_register_service(registered[n - 1], server_procs[n].program,
                                  server_procs[n].version, server_procs[n].procs)
  IN  registered[Len(server_procs)]

create_udp_server(server_procs) == Endpoints(server_procs)

do_accept(server_procs) == Endpoints(server_procs)

-----------------------------------------------------------------------------

\* Mutant: the scan keeps the versions of the first endpoint it met.
Scan_Mutant(st, e, prog, vers) ==
  IF st.hit \/ e.program # prog THEN st
  ELSE [found |-> TRUE, hit |-> e.version = vers, procs |-> e.procs,
        low  |-> IF st.found THEN st.low ELSE e.version,
        high |-> IF ~st.found \/ e.version > st.high THEN e.version ELSE st.high]

\* One endpoint of the scan for the program and the version of a call; the scan ends
\* at the endpoint that has both.
Scan(st, e, prog, vers) ==
  IF st.hit \/ e.program # prog THEN st
  ELSE [found |-> TRUE, hit |-> e.version = vers, procs |-> e.procs,
        low  |-> IF ~st.found \/ e.version < st.low THEN e.version ELSE st.low,
        high |-> IF ~st.found \/ e.version > st.high THEN e.version ELSE st.high]

\* What becomes of a call: the error reply that is sent, or "serve" when the procedure
\* is run.  call.decodes: its arguments are those of the procedure.
rpc_process_call(endpoints, call) ==
  LET scanned[n \in 0..Len(endpoints)] ==
        IF n = 0
        THEN [found |-> FALSE, hit |-> FALSE, procs |-> {}, low |-> 0, high |-> 0]
        ELSE Scan(scanned[n - 1], endpoints[n], call.prog, call.vers)
      st == scanned[Len(endpoints)]
      Error(stat, low, high) == [stat |-> stat, low |-> low, high |-> high]
  IN  IF ~st.found THEN Error("PROG_UNAVAIL", 0, 0)
      ELSE IF ~st.hit THEN Error("PROG_MISMATCH", st.low, st.high)
      ELSE IF call.proc \notin st.procs THEN Error("PROC_UNAVAIL", 0, 0)
      ELSE IF ~call.decodes THEN Error("GARBAGE_ARGS", 0, 0)
      ELSE Error("serve", 0, 0)

\* rpc_send_error_reply, when the call is not served.
Refuse(to, endpoints, call) ==
  LET r == rpc_process_call(endpoints, call)
  IN  /\ r.stat # "serve"
      /\ rpc_send_reply(to, "error", [call |-> call, reply |-> r])

Serves(endpoints, call) == rpc_process_call(endpoints, call).stat = "serve"

\* What RFC 5531 asks of the reply to a call: a version that is not served is answered
\* with the lowest and the highest version of the program that are.
ReplyRight(endpoints, call, reply) ==
  LET Served == {endpoints[i].version : i \in {j \in DOMAIN endpoints :
                                                 endpoints[j].program = call.prog}}
  IN  CASE Served = {} -> reply.stat = "PROG_UNAVAIL"
        [] Served # {} /\ call.vers \notin Served ->
             /\ reply.stat = "PROG_MISMATCH"
             /\ {reply.low, reply.high} \subseteq Served
             /\ \A v \in Served : reply.low <= v /\ v <= reply.high
        [] OTHER -> reply.stat \in {"PROC_UNAVAIL", "GARBAGE_ARGS", "serve"}

=============================================================================
