------------------------------ MODULE Rpcbind -------------------------------
(***************************************************************************)
(* rpcbind (servers/rpcbind/rpcbind.c): the table of registrations, the    *)
(* file that keeps it across restarts, and the calls it forwards (CALLIT). *)
(*                                                                         *)
(* A handler answers before it saves the table, so a handler that changes  *)
(* the table is two steps: up to the reply, and write_db.  The event loop  *)
(* runs nothing between the two, but the process can die there.            *)
(***************************************************************************)
EXTENDS RpcServer, FiniteSets

CONSTANTS DbCapacity,   \* registrations that fit the 64 KB buffer of write_db
          MaxMap,       \* bound: registrations in the table
          MaxCallits    \* bound: CALLITs forwarded

VARIABLES map,      \* the registrations (the order of the list decides nothing)
          db,       \* those of the database file
          port,     \* the static variable of pmap2_getport_proc
          owed,     \* a handler has answered and not yet called write_db
          up,       \* the process runs
          callits,  \* struct callit_data of the forwarded calls, oldest first
          undefined \* memory was used after it was freed: nothing is known from here on

bindvars == <<map, db, port, owed, up, callits, undefined>>

Mapping(prog, vers, netid, p) == [prog |-> prog, vers |-> vers, netid |-> netid, port |-> p]

Idle == up /\ ~owed /\ ~undefined

-----------------------------------------------------------------------------
(***************************************************************************)
(* The table                                                               *)
(***************************************************************************)

pmap_register(m, item) == m \cup {item}

\* The registration that matches, or none (NULL).
map_lookup(m, prog, vers, netid) ==
  {e \in m : e.prog = prog /\ e.vers = vers /\ e.netid = netid}

\* Mutant: the netid is not compared.
map_remove_Mutant(m, prog, vers, netid) ==
  {e \in m : e.prog # prog \/ e.vers # vers}

\* An empty netid removes the registrations of every netid.
map_remove(m, prog, vers, netid) ==
  {e \in m : e.prog # prog \/ e.vers # vers \/ (netid # "" /\ e.netid # netid)}

\* The file is overwritten in place; decoding it stops at the end of the list, so what
\* is left of a longer list does not matter.  A list that does not fit the buffer
\* is not written.
write_db ==
  /\ up /\ owed
  /\ db' = IF Cardinality(map) <= DbCapacity THEN map ELSE db
  /\ owed' = FALSE
  /\ Silent
  /\ UNCHANGED <<map, port, up, callits, undefined>>

\* Each registration of the file is registered.
read_db == UNION {pmap_register({}, e) : e \in db}

\* Mutant: the protocol is taken for a netid.
Netid2_Mutant(prot) == prot

\* Version 2 names the transport by its protocol number.
Netid2(prot) == IF prot = "TCP" THEN "tcp" ELSE "udp"

-----------------------------------------------------------------------------
(***************************************************************************)
(* Procedures                                                              *)
(***************************************************************************)

\* Mutant: a registration that exists is not looked for.
Set_Mutant(to, proc, item) ==
  /\ Idle /\ Cardinality(map) < MaxMap
  /\ rpc_send_reply(to, proc, 1)
  /\ map' = pmap_register(map, item)
  /\ owed' = TRUE
  /\ UNCHANGED <<db, port, up, callits, undefined>>

\* SET of versions 2, 3 and 4.
Set(to, proc, item) ==
  /\ Idle
  /\ IF map_lookup(map, item.prog, item.vers, item.netid) # {}
     THEN rpc_send_reply(to, proc, 0) /\ UNCHANGED <<map, owed>>
     ELSE /\ Cardinality(map) < MaxMap
          /\ rpc_send_reply(to, proc, 1)
          /\ map' = pmap_register(map, item)
          /\ owed' = TRUE
  /\ UNCHANGED <<db, port, up, callits, undefined>>

\* Mutant: the file is not written.
Unset_Mutant(to, proc, prog, vers, netid) ==
  /\ Idle
  /\ map' = map_remove(map, prog, vers, netid)
  /\ rpc_send_reply(to, proc, 1)
  /\ UNCHANGED <<db, port, owed, up, callits, undefined>>

\* UNSET of versions 2, 3 and 4.
Unset(to, proc, prog, vers, netid) ==
  /\ Idle
  /\ map' = map_remove(map, prog, vers, netid)
  /\ rpc_send_reply(to, proc, 1)
  /\ owed' = TRUE
  /\ UNCHANGED <<db, port, up, callits, undefined>>

pmap2_set_proc(to, prog, vers, prot, p) ==
  Set(to, "set", Mapping(prog, vers, Netid2(prot), p))

pmap2_unset_proc(to, prog, vers, prot) ==
  Unset(to, "unset", prog, vers, Netid2(prot))

pmap3_set_proc(to, prog, vers, netid, p) ==
  Set(to, "set", Mapping(prog, vers, netid, p))

pmap3_unset_proc(to, prog, vers, netid) ==
  Unset(to, "unset", prog, vers, netid)

\* The port is looked up into a static variable.
pmap2_getport_proc(to, prog, vers, prot) ==
  LET found == map_lookup(map, prog, vers, Netid2(prot))
  IN  /\ Idle
      /\ port' = IF found = {} THEN port ELSE (CHOOSE e \in found : TRUE).port
      /\ rpc_send_reply(to, "pmap2_getport", [prog |-> prog, vers |-> vers,
                                     netid |-> Netid2(prot), port |-> port'])
      /\ UNCHANGED <<map, db, owed, up, callits, undefined>>

\* No reply when nothing is registered.
pmap3_getaddr_proc(to, prog, vers, netid) ==
  LET found == map_lookup(map, prog, vers, netid)
  IN  /\ Idle
      /\ \/ found = {} /\ Silent
         \/ \E e \in found : rpc_send_reply(to, "pmap3_getaddr", e)
      /\ UNCHANGED <<map, db, port, owed, up, callits, undefined>>

\* Version 2 leaves out IPv6.
Dump(to, proc, list) ==
  /\ Idle
  /\ rpc_send_reply(to, proc, list)
  /\ UNCHANGED <<map, db, port, owed, up, callits, undefined>>

pmap2_dump_proc(to) ==
  Dump(to, "dump", {e \in map : e.netid \in {"tcp", "udp"}})

pmap3_dump_proc(to) == Dump(to, "dump", map)

\* NULL, GETTIME and the two translations of addresses change nothing.
Stateless(to) ==
  /\ Idle
  /\ rpc_send_reply(to, "void", "")
  /\ UNCHANGED <<map, db, port, owed, up, callits, undefined>>

-----------------------------------------------------------------------------
(***************************************************************************)
(* CALLIT: a NULL call is sent to the registered program, and its answer   *)
(* or a timer ends the forwarded call.  data: the struct callit_data is    *)
(* allocated; pdu: the NULL call is in the outgoing context; from: the     *)
(* client's context.                                                       *)
(***************************************************************************)

\* Only for procedure 0, and for a program registered for udp; every failure on the
\* way (memory, the timer, the NULL call) frees what was made and answers nothing.
pmapX_callit_proc(from, prog, vers, proc, fails) ==
  /\ Idle
  /\ callits' = IF proc # 0 \/ map_lookup(map, prog, vers, "udp") = {} \/ fails
                THEN callits
                ELSE Append(callits, [from |-> from, data |-> TRUE, pdu |-> TRUE])
  /\ Len(callits') <= MaxCallits
  /\ Silent
  /\ UNCHANGED <<map, db, port, owed, up, undefined>>

\* The NULL call is answered, or fails: the caller is answered only in the first case.
\* alive: contexts of clients that are not freed.
callit_cb(i, success, alive) ==
  /\ Idle
  /\ callits[i].pdu
  /\ callits' = RemoveAt(callits, i)
  /\ undefined' = (~callits[i].data \/ (success /\ callits[i].from \notin alive))
  /\ IF success /\ ~undefined' THEN rpc_send_reply(callits[i].from, "callit", i)
                               ELSE Silent
  /\ UNCHANGED <<map, db, port, owed, up>>

\* The timer frees the data.  rpc_cancel_pdu is given the client's context, where the
\* NULL call is not: the NULL call stays in the outgoing context.
callit_timeout_cb(i, alive) ==
  /\ Idle
  /\ callits[i].data
  /\ callits' = [callits EXCEPT ![i].data = FALSE]
  /\ undefined' = (callits[i].from \notin alive)
  /\ Silent
  /\ UNCHANGED <<map, db, port, owed, up>>

-----------------------------------------------------------------------------

\* The procedures of the three versions: 0 NULL, 1 SET, 2 UNSET, 3 GETPORT or GETADDR,
\* 4 DUMP, 5 CALLIT or BCAST, 6 GETTIME, 7 UADDR2TADDR, 8 TADDR2UADDR.
pmap_pt == <<[program |-> "PMAP", version |-> 2, procs |-> 0..5],
             [program |-> "PMAP", version |-> 3, procs |-> 0..8],
             [program |-> "PMAP", version |-> 4, procs |-> 0..8]>>

\* Procedure proc of version vers runs on the arguments a.
Procedure(to, vers, proc, a) ==
  \/ proc \in {0, 6, 7, 8} /\ Stateless(to)
  \/ proc = 1 /\ vers = 2 /\ pmap2_set_proc(to, a.prog, a.vers, a.netid, a.port)
  \/ proc = 1 /\ vers > 2 /\ pmap3_set_proc(to, a.prog, a.vers, a.netid, a.port)
  \/ proc = 2 /\ vers = 2 /\ pmap2_unset_proc(to, a.prog, a.vers, a.netid)
  \/ proc = 2 /\ vers > 2 /\ pmap3_unset_proc(to, a.prog, a.vers, a.netid)
  \/ proc = 3 /\ vers = 2 /\ pmap2_getport_proc(to, a.prog, a.vers, a.netid)
  \/ proc = 3 /\ vers > 2 /\ pmap3_getaddr_proc(to, a.prog, a.vers, a.netid)
  \/ proc = 4 /\ vers = 2 /\ pmap2_dump_proc(to)
  \/ proc = 4 /\ vers > 2 /\ pmap3_dump_proc(to)
  \/ proc = 5 /\ \E fails \in BOOLEAN :
                  pmapX_callit_proc(to, a.prog, a.vers, a.proc, fails)

RpcbindInit ==
  /\ map = {} /\ db = {} /\ port = 0 /\ owed = FALSE /\ up = TRUE
  /\ callits = <<>> /\ undefined = FALSE

\* The process dies, at any point.
Die ==
  /\ up
  /\ up' = FALSE /\ owed' = FALSE
  /\ callits' = <<>>
  /\ Silent
  /\ UNCHANGED <<map, db, port, undefined>>

\* main() starts from the file.
Restart ==
  /\ ~up
  /\ up' = TRUE
  /\ map' = read_db
  /\ port' = 0
  /\ undefined' = FALSE
  /\ Silent
  /\ UNCHANGED <<db, owed, callits>>

=============================================================================
