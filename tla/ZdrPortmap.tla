------------------------------ MODULE ZdrPortmap ------------------------------
(***************************************************************************)
(* The routines of the port mapper and rpcbind (portmap/libnfs-raw-        *)
(* portmap.c): which routines each of them calls, in order. A struct of    *)
(* one field is described as the field.                                    *)
(***************************************************************************)
EXTENDS Zdr

zdr_pmap2_mapping == Struct(<<zdr_u_int, zdr_u_int, zdr_u_int, zdr_u_int>>)
zdr_pmap2_call_args == Struct(<<zdr_u_int, zdr_u_int, zdr_u_int, zdr_bytes>>)
zdr_pmap2_call_result == Struct(<<zdr_u_int, zdr_bytes>>)
zdr_pmap2_mapping_list == Chain(<<zdr_pmap2_mapping>>)
zdr_pmap2_dump_result == zdr_pointer(zdr_pmap2_mapping_list)
zdr_pmap3_string_result == zdr_string
zdr_pmap3_mapping == Struct(<<zdr_u_int, zdr_u_int, zdr_string, zdr_string,
    zdr_string>>)
zdr_pmap3_mapping_list == Chain(<<zdr_pmap3_mapping>>)
zdr_pmap3_dump_result == zdr_pointer(zdr_pmap3_mapping_list)
zdr_pmap3_call_args == Struct(<<zdr_u_int, zdr_u_int, zdr_u_int, zdr_bytes>>)
zdr_rpcb_rmtcallres == Struct(<<zdr_string, zdr_bytes>>)
zdr_pmap3_netbuf == Struct(<<zdr_u_int, zdr_bytes>>)
zdr_pmap4_string_result == zdr_string
zdr_pmap4_mapping == Struct(<<zdr_u_int, zdr_u_int, zdr_string, zdr_string,
    zdr_string>>)
zdr_pmap4_mapping_list == Chain(<<zdr_pmap4_mapping>>)
zdr_pmap4_dump_result == zdr_pointer(zdr_pmap4_mapping_list)
zdr_pmap4_bcast_args == Struct(<<zdr_u_int, zdr_u_int, zdr_u_int, zdr_bytes>>)
zdr_pmap4_netbuf == Struct(<<zdr_u_int, zdr_bytes>>)
zdr_pmap4_indirect_args == Struct(<<zdr_u_int, zdr_u_int, zdr_u_int, zdr_bytes>>)
zdr_rpcbs_addrlist == Chain(<<zdr_u_int, zdr_u_int, zdr_int, zdr_int, zdr_string>>)
zdr_rpcbs_rmtcalllist == Chain(<<zdr_u_int, zdr_u_int, zdr_u_int, zdr_int, zdr_int,
    zdr_int, zdr_string>>)
zdr_rpcbs_proc == zdr_vector(13, zdr_int)
zdr_rpcbs_addrlist_ptr == zdr_pointer(zdr_rpcbs_addrlist)
zdr_rpcbs_rmtcalllist_ptr == zdr_pointer(zdr_rpcbs_rmtcalllist)
zdr_rpcb_stat == Struct(<<zdr_rpcbs_proc, zdr_int, zdr_int, zdr_rpcbs_addrlist_ptr,
    zdr_rpcbs_rmtcalllist_ptr>>)
zdr_pmap4_stat_byvers == zdr_vector(3, zdr_rpcb_stat)
zdr_rpcb_entry == Struct(<<zdr_string, zdr_string, zdr_u_int, zdr_string, zdr_string>>)
zdr_rpcb_entry_list == Chain(<<zdr_rpcb_entry>>)
zdr_pmap4_entry_list_ptr == zdr_pointer(zdr_rpcb_entry_list)
zdr_PMAP2SETargs == zdr_pmap2_mapping
zdr_PMAP2UNSETargs == zdr_pmap2_mapping
zdr_PMAP2GETPORTargs == zdr_pmap2_mapping
zdr_PMAP2CALLITargs == zdr_pmap2_call_args
zdr_PMAP3SETargs == zdr_pmap3_mapping
zdr_PMAP3UNSETargs == zdr_pmap3_mapping
zdr_PMAP3GETADDRargs == zdr_pmap3_mapping
zdr_PMAP3CALLITargs == zdr_pmap3_call_args
zdr_PMAP3TADDR2UADDRargs == zdr_pmap3_netbuf

=============================================================================
