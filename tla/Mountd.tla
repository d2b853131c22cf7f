------------------------------- MODULE Mountd -------------------------------
(***************************************************************************)
(* mountd (servers/nfsd/mountd.c): the exports and the list of clients     *)
(* that mounted one of them.                                               *)
(***************************************************************************)
EXTENDS RpcServer

CONSTANTS Exports,     \* paths that are exported
          MaxMounts    \* bound: entries of the list of clients

VARIABLE clients       \* mountd->clients, newest first: client and path

Entry(c, path) == [client |-> c, path |-> path]

\* Without the address of the caller, or memory, the entry cannot be made.
mount3_mnt_proc(c, path, fails) ==
  IF path \notin Exports \/ fails
  THEN /\ rpc_send_reply(c, "mnt", IF path \notin Exports THEN "NOENT" ELSE "SERVERFAULT")
       /\ UNCHANGED clients
  ELSE /\ Len(clients) < MaxMounts
       /\ clients' = <<Entry(c, path)>> \o clients
       /\ rpc_send_reply(c, "mnt", "OK")

\* The first entry of this client and path goes.
mount3_umnt_proc(c, path, fails) ==
  LET Mine == {i \in DOMAIN clients : clients[i] = Entry(c, path)}
  IN  /\ clients' = IF fails \/ Mine = {} THEN clients
                    ELSE RemoveAt(clients, CHOOSE i \in Mine : \A j \in Mine : i <= j)
      /\ rpc_send_reply(c, "umnt", "")

\* Mutant: the entry is put on the new list before its client is compared.
Umntall_Mutant(c, list) ==
  IF list = <<>> THEN <<>> ELSE <<list[1]>>

\* The loop moves the entries of other clients to a new list, and follows the next
\* pointer it has just overwritten: it ends at the first of them.
Umntall(c, list) ==
  LET First == {i \in DOMAIN list : /\ list[i].client # c
                                    /\ \A j \in 1..(i - 1) : list[j].client = c}
  IN  IF First = {} THEN <<>> ELSE <<list[CHOOSE i \in First : TRUE]>>

\* fails: the address of the caller is not known.
mount3_umntall_proc(c, fails) ==
  /\ clients' = IF fails THEN clients ELSE Umntall(c, clients)
  /\ rpc_send_reply(c, "umntall", fails)

mount3_dump_proc(c) ==
  LET n == Len(clients)
  IN  /\ rpc_send_reply(c, "mounts", [i \in 1..n |-> clients[n + 1 - i]])
      /\ UNCHANGED clients

mount3_export_proc(c) == rpc_send_reply(c, "export", Exports) /\ UNCHANGED clients

mount3_null_proc(c) == rpc_send_reply(c, "null", "") /\ UNCHANGED clients

=============================================================================
