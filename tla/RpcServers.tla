----------------------------- MODULE RpcServers -----------------------------
(***************************************************************************)
(* The servers of the repository together: rpcbind, the servers that       *)
(* register with it when they start (libnfs_create_server of               *)
(* servers/libnfs-server.c, used by mountd, nfsd, statd and rpcbind), and  *)
(* clients of rpcbind and of mountd.                                       *)
(*                                                                         *)
(* A server sends an UNSET and a SET for each program, version and netid   *)
(* over UDP on the loopback interface: datagrams are delivered in order or *)
(* lost.                                                                   *)
(***************************************************************************)
EXTENDS Rpcbind, Mountd

CONSTANTS Servers,        \* server processes
          Table,          \* Table[s]: their programs, a sequence of [prog, vers]
          Transports,     \* the transports they ask for, a subset of udp, udp6, tcp, tcp6
          Known,          \* bound: the netids of the instance, a subset of these
          Clients,        \* other users of rpcbind
          UserProgs,      \* programs that clients register
          MountClients,   \* clients of mountd
          Paths,          \* paths that clients mount
          PortBase,       \* per server or client, the ports below its own
          MaxStarts,      \* bound: times a server is started
          MaxFaults       \* bound: datagrams lost, starts cut short and faults of rpcbind

\* A program is served by one server and is not one that clients register; the netids
\* have names.
ASSUME ServersAssumption ==
  /\ IsFiniteSet(Known) /\ "udp" \in Known /\ "" \notin Known
  /\ \A s \in Servers :
       /\ PortBase[s] \in Nat
       /\ IsFiniteSet(Range(Table[s]))
       /\ \A e \in Range(Table[s]) :
            e = [prog |-> e.prog, vers |-> e.vers] /\ e.prog \notin UserProgs
       /\ \A t \in Servers \ {s} : Range(Table[s]) \cap Range(Table[t]) = {}

VARIABLES srv,    \* per server: where libnfs_create_server is, and how often it was started
          reqs,   \* requests on their way to rpcbind, oldest first
          acks,   \* per server: replies on their way back
          lost,   \* registrations rpcbind did not have on file when it died
          faults

vars == <<bindvars, clients, answer, srv, reqs, acks, lost, faults>>

\* The netids libnfs_create_server registers: those of TCP depend on UDP.
Netids ==
  {n \in Known :
     IF n = "udp6" THEN "udp6" \in Transports ELSE "udp" \in Transports}

\* Every start gets a new port.
Port(s, n) == PortBase[s] + n

\* What a server registers: each program and version, with each netid.
Keys(s) == Range(Table[s]) \X Netids

\* A request of the server with port p: an UNSET (2) or a SET (1).
Request(s, p, r, proc) ==
  [proc |-> proc, from |-> s, inst |-> p,
   prog |-> r[1].prog, vers |-> r[1].vers, netid |-> r[2]]

\* The members of a finite set, in some order.
Listed(S) == CHOOSE f \in [1..Cardinality(S) -> S] : IsInjective(f)

\* The requests of a server whose port is p, in the order in which they are sent: the SET
\* after its UNSET (the order of the programs and of the netids decides nothing).
Requests(s, p) ==
  LET keys == Listed(Keys(s))
  IN  [i \in 1..(2 * Len(keys)) |->
         Request(s, p, keys[(i + 1) \div 2], IF i % 2 = 1 THEN 2 ELSE 1)]

-----------------------------------------------------------------------------
(***************************************************************************)
(* libnfs_create_server                                                    *)
(***************************************************************************)

\* The sockets are made and every request is sent, or a socket cannot be made.
Start(s) ==
  /\ srv[s].pc = "down" /\ srv[s].starts < MaxStarts
  /\ LET n == srv[s].starts + 1
         q == Requests(s, Port(s, n))
     IN  \/ /\ srv' = [srv EXCEPT ![s] = [pc |-> "registering", starts |-> n,
                                          num_wait |-> Len(q)]]
            /\ reqs' = IF up THEN reqs \o q ELSE reqs
         \/ /\ srv' = [srv EXCEPT ![s].starts = n]
            /\ UNCHANGED reqs
  /\ Silent
  /\ UNCHANGED <<bindvars, clients, acks, lost, faults>>

\* A request cannot be sent: those before it are out, and the function gives up.
\* rpc_destroy_context ends the calls without data, which _pmap4_set_cb follows.
StartFails(s) ==
  /\ srv[s].pc = "down" /\ srv[s].starts < MaxStarts
  /\ faults < MaxFaults /\ faults' = faults + 1
  /\ \E k \in 1..Len(Requests(s, Port(s, srv[s].starts + 1))) - 1 :
       reqs' = IF up
               THEN reqs \o SubSeq(Requests(s, Port(s, srv[s].starts + 1)), 1, k)
               ELSE reqs
  /\ srv' = [srv EXCEPT ![s].starts = @ + 1]
  /\ Silent
  /\ UNCHANGED <<bindvars, clients, acks, lost>>

\* A reply, whatever it says, counts; the last one ends the loop.
pmap4_set_cb(s) ==
  /\ srv[s].pc = "registering" /\ acks[s] > 0
  /\ acks' = [acks EXCEPT ![s] = @ - 1]
  /\ srv' = [srv EXCEPT ![s].num_wait = @ - 1,
                        ![s].pc = IF srv[s].num_wait = 1 THEN "started" ELSE @]
  /\ Silent
  /\ UNCHANGED <<bindvars, clients, reqs, lost, faults>>

\* Mutant: the timer leaves num_wait as it is.
timeout_cb_Mutant(s) ==
  /\ srv[s].pc = "registering"
  /\ Silent
  /\ UNCHANGED <<bindvars, clients, srv, reqs, acks, lost, faults>>

\* After five seconds the function gives up, and as in StartFails the process ends.
timeout_cb(s) ==
  /\ srv[s].pc = "registering"
  /\ srv' = [srv EXCEPT ![s].pc = "down", ![s].num_wait = 0]
  /\ acks' = [acks EXCEPT ![s] = 0]
  /\ Silent
  /\ UNCHANGED <<bindvars, clients, reqs, lost, faults>>

\* A running server stops; its registrations stay.
Exit(s) ==
  /\ srv[s].pc = "started"
  /\ srv' = [srv EXCEPT ![s].pc = "down"]
  /\ clients' = <<>>
  /\ Silent
  /\ UNCHANGED <<bindvars, reqs, acks, lost, faults>>

-----------------------------------------------------------------------------
(***************************************************************************)
(* rpcbind serves what arrives                                             *)
(***************************************************************************)

\* The oldest request of a server is served and answered; an answer to a server that
\* is gone finds no socket.
ServeRequest ==
  /\ reqs # <<>>
  /\ LET q == reqs[1]
         there == srv[q.from].pc = "registering" /\ q.inst = Port(q.from, srv[q.from].starts)
     IN  /\ Procedure(q.from, 4, q.proc, [prog |-> q.prog, vers |-> q.vers,
                                          netid |-> q.netid, port |-> q.inst])
         /\ acks' = IF there THEN [acks EXCEPT ![q.from] = @ + 1] ELSE acks
  /\ reqs' = Tail(reqs)
  /\ UNCHANGED <<clients, srv, lost, faults>>

LoseRequest ==
  /\ faults < MaxFaults /\ faults' = faults + 1
  /\ \E i \in DOMAIN reqs : reqs' = RemoveAt(reqs, i)
  /\ Silent
  /\ UNCHANGED <<bindvars, clients, srv, acks, lost>>

LoseReply ==
  /\ faults < MaxFaults /\ faults' = faults + 1
  /\ \E s \in Servers : acks[s] > 0 /\ acks' = [acks EXCEPT ![s] = @ - 1]
  /\ Silent
  /\ UNCHANGED <<bindvars, clients, srv, reqs, lost>>

ProgVers == UNION {Range(Table[s]) : s \in Servers} \cup [prog : UserProgs, vers : {1}]

\* The calls of other clients: for versions 2 and 3, and for a version, a procedure or
\* arguments that rpcbind does not have.
Calls == [prog : {"PMAP"}, vers : {2}, proc : 0..6, decodes : {TRUE}]
           \cup [prog : {"PMAP"}, vers : {3}, proc : 0..8, decodes : {TRUE}]
           \cup [prog : {"PMAP"}, vers : {1, 5}, proc : {0}, decodes : {TRUE}]
           \cup {[prog |-> "PMAP", vers |-> 3, proc |-> 1, decodes |-> FALSE]}

\* Their arguments.  Version 2 has protocol numbers; only UNSET goes without a netid;
\* clients register only programs of their own.
ArgKeys(call) == IF call.proc \in {3, 5} THEN ProgVers ELSE [prog : UserProgs, vers : {1}]

ArgNetids(call) ==
  LET Udp == IF call.vers = 2 THEN "UDP" ELSE "udp"
  IN  CASE call.proc = 1 -> {Udp}
        [] call.proc = 2 -> {Udp} \cup (IF call.vers = 2 THEN {} ELSE {""})
        [] call.proc = 3 -> {Udp, IF call.vers = 2 THEN "TCP" ELSE "tcp"}
        [] OTHER         -> {""}

Args(call) ==
  {[prog |-> k.prog, vers |-> k.vers, netid |-> n, proc |-> p, port |-> 0] :
     k \in ArgKeys(call), n \in ArgNetids(call), p \in IF call.proc = 5 THEN {0, 1} ELSE {0}}

ServedCalls(endpoints) == UNION {{[call |-> call, args |-> a] : a \in Args(call)} :
                        call \in {x \in Calls : Serves(endpoints, x)}}

UdpCalls == ServedCalls(create_udp_server(pmap_pt))
TcpCalls == ServedCalls(do_accept(pmap_pt))

RefusedCalls == {x \in Calls : ~Serves(do_accept(pmap_pt), x)}

\* libnfs_server_io: a datagram or the data of a connection is served.  Whether a call is
\* refused does not depend on the table: such calls are made while it is empty.
ServeClient(c) ==
  /\ Idle /\ clients = <<>>
  /\ \/ \E x \in UdpCalls \cup TcpCalls :
          Procedure(c, x.call.vers, x.call.proc, [x.args EXCEPT !.port = Port(c, 1)])
     \/ map = {} /\ \E call \in RefusedCalls :
          Refuse(c, do_accept(pmap_pt), call) /\ UNCHANGED bindvars
  /\ UNCHANGED <<clients, srv, reqs, acks, lost, faults>>

Forwarded ==
  /\ \E i \in DOMAIN callits :
       \/ \E success \in BOOLEAN : callit_cb(i, success, Clients)
       \/ callit_timeout_cb(i, Clients)
  /\ UNCHANGED <<clients, srv, reqs, acks, lost, faults>>

Save == write_db /\ UNCHANGED <<clients, srv, reqs, acks, lost, faults>>

\* What is in the socket of rpcbind dies with it.
RpcbindDies ==
  /\ faults < MaxFaults \/ undefined
  /\ Die
  /\ lost' = lost \cup {r \in ProgVers \X Known : map_lookup(map, r[1].prog, r[1].vers, r[2])
                                                  # map_lookup(db, r[1].prog, r[1].vers, r[2])}
  /\ faults' = IF undefined THEN faults ELSE faults + 1
  /\ reqs' = <<>>
  /\ UNCHANGED <<clients, srv, acks>>

RpcbindRestarts == Restart /\ UNCHANGED <<clients, srv, reqs, acks, lost, faults>>

\* Calls of mount clients, once mountd runs.  rpcbind and mountd share no state: calls of
\* clients to the one and to the other are not interleaved.
ServeMount(c) ==
  /\ \E s \in Servers : srv[s].pc = "started"
  /\ callits = <<>> /\ port = 0 /\ faults = 0
  /\ \/ \E path \in Paths, fails \in BOOLEAN :
          mount3_mnt_proc(c, path, fails) \/ mount3_umnt_proc(c, path, fails)
     \/ \E fails \in BOOLEAN : mount3_umntall_proc(c, fails)
     \/ mount3_dump_proc(c)
     \/ mount3_export_proc(c)
     \/ mount3_null_proc(c)
  /\ UNCHANGED <<bindvars, srv, reqs, acks, lost, faults>>

-----------------------------------------------------------------------------

Init ==
  /\ RpcbindInit
  /\ clients = <<>>
  /\ answer = NoAnswer
  /\ srv = [s \in Servers |-> [pc |-> "down", starts |-> 0, num_wait |-> 0]]
  /\ reqs = <<>>
  /\ acks = [s \in Servers |-> 0]
  /\ lost = {} /\ faults = 0

Next ==
  \/ \E s \in Servers : \/ Start(s) \/ StartFails(s) \/ pmap4_set_cb(s)
                       \/ timeout_cb(s) \/ Exit(s)
  \/ ServeRequest \/ LoseRequest \/ LoseReply
  \/ \E c \in Clients : ServeClient(c)
  \/ \E c \in MountClients : ServeMount(c)
  \/ Forwarded
  \/ Save \/ RpcbindDies \/ RpcbindRestarts

\* The timer of a server that registers goes off.
Fairness == \A s \in Servers : WF_vars(timeout_cb(s))

Spec == Init /\ [][Next]_vars /\ Fairness

-----------------------------------------------------------------------------
(***************************************************************************)
(* Properties                                                              *)
(***************************************************************************)

\* The variables have their types, and no server waits for more answers than it has sent
\* requests (num_wait of libnfs_create_server).
TypeOK ==
  /\ \A m \in map \cup db : m.netid \in Known
  /\ owed \in BOOLEAN /\ up \in BOOLEAN /\ undefined \in BOOLEAN
  /\ \A s \in Servers : /\ srv[s].pc \in {"down", "registering", "started"}
                         /\ srv[s].num_wait \in 0..Len(Requests(s, Port(s, 1)))
                         /\ acks[s] \in 0..srv[s].num_wait

\* A program, version and netid is registered at most once, in the table and on file
\* (SET refuses one that is registered, whatever is on file when rpcbind starts).
OneRegistration ==
  \A t \in {map, db} : \A d, e \in t :
    (d.prog = e.prog /\ d.vers = e.vers /\ d.netid = e.netid) => d = e

\* Whenever rpcbind waits for the next event its file has exactly the registrations of
\* its table, if they fit: it can be killed then without loss.
OnFile ==
  up /\ ~owed /\ Cardinality(map) <= DbCapacity => map = db

\* When libnfs_create_server has returned, every netid of every program of the server is
\* registered with the port of this very process, whatever was registered by an earlier
\* one and whatever datagrams were lost, unless rpcbind died between the answer to a
\* registration and writing it down.
StartedIsRegistered ==
  \A s \in Servers : srv[s].pc = "started" /\ up =>
    \A k \in Range(Table[s]), n \in Netids :
      <<k, n>> \in lost \/ map_lookup(map, k.prog, k.vers, n)
                             = {Mapping(k.prog, k.vers, n, Port(s, srv[s].starts))}

\* A call for a program, version or procedure that is not served is refused with the
\* right error, and a version that is not served with the range that is (rpc_process_call).
RefusedRight ==
  answer.proc = "error" => ReplyRight(Endpoints(pmap_pt), answer.res.call, answer.res.reply)

\* After UMNTALL no entry of the caller is left (mount3_umntall_proc).
UmntallForgets ==
  answer.proc = "umntall" /\ ~answer.res => \A e \in Range(clients) : e.client # answer.to

\* A server that registers comes to an end: it is started or it has given up.
RegistrationEnds ==
  \A s \in Servers : srv[s].pc = "registering" ~> srv[s].pc # "registering"

=============================================================================
