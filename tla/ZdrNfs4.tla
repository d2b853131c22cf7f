-------------------------------- MODULE ZdrNfs4 --------------------------------
(***************************************************************************)
(* The routines of the operations of NFS version 4 and 4.1                 *)
(* (nfs4/libnfs-raw-nfs4.c): which routines each of them calls, in order.  *)
(* A struct of one field is described as the field.                        *)
(***************************************************************************)
EXTENDS ZdrNfs4Types

zdr_ACCESS4args == zdr_uint32_t
zdr_ACCESS4resok == Struct(<<zdr_uint32_t, zdr_uint32_t>>)
zdr_ACCESS4res == Switch(zdr_nfsstat4, NFS4_OK :> zdr_ACCESS4resok, zdr_void)
zdr_CLOSE4args == Struct(<<zdr_seqid4, zdr_stateid4>>)
zdr_CLOSE4res == Switch(zdr_nfsstat4, NFS4_OK :> zdr_stateid4, zdr_void)
zdr_COMMIT4args == Struct(<<zdr_offset4, zdr_count4>>)
zdr_COMMIT4resok == zdr_verifier4
zdr_COMMIT4res == Switch(zdr_nfsstat4, NFS4_OK :> zdr_COMMIT4resok, zdr_void)
zdr_createtype4 ==
  Switch(zdr_nfs_ftype4,
    NF4LNK :> zdr_linktext4 @@ Cases({NF4BLK, NF4CHR}, zdr_specdata4),
    zdr_void)
zdr_CREATE4args == Struct(<<zdr_createtype4, zdr_component4, zdr_fattr4>>)
zdr_CREATE4resok == Struct(<<zdr_change_info4, zdr_bitmap4>>)
zdr_CREATE4res == Switch(zdr_nfsstat4, NFS4_OK :> zdr_CREATE4resok, zdr_void)
zdr_DELEGPURGE4args == zdr_clientid4
zdr_DELEGPURGE4res == zdr_nfsstat4
zdr_DELEGRETURN4args == zdr_stateid4
zdr_DELEGRETURN4res == zdr_nfsstat4
zdr_GETATTR4args == zdr_bitmap4
zdr_GETATTR4resok == zdr_fattr4
zdr_GETATTR4res == Switch(zdr_nfsstat4, NFS4_OK :> zdr_GETATTR4resok, zdr_void)
zdr_GETFH4resok == zdr_nfs_fh4
zdr_GETFH4res == Switch(zdr_nfsstat4, NFS4_OK :> zdr_GETFH4resok, zdr_void)
zdr_LINK4args == zdr_component4
zdr_LINK4resok == zdr_change_info4
zdr_LINK4res == Switch(zdr_nfsstat4, NFS4_OK :> zdr_LINK4resok, zdr_void)
zdr_open_to_lock_owner4 == Struct(<<zdr_seqid4, zdr_stateid4, zdr_seqid4,
    zdr_lock_owner4>>)
zdr_exist_lock_owner4 == Struct(<<zdr_stateid4, zdr_seqid4>>)
zdr_locker4 ==
  Switch(zdr_bool,
    1 :> zdr_open_to_lock_owner4 @@ 0 :> zdr_exist_lock_owner4,
    Refuse)
zdr_LOCK4args == Struct(<<zdr_nfs_lock_type4, zdr_bool, zdr_offset4, zdr_length4,
    zdr_locker4>>)
zdr_LOCK4denied == Struct(<<zdr_offset4, zdr_length4, zdr_nfs_lock_type4,
    zdr_lock_owner4>>)
zdr_LOCK4resok == zdr_stateid4
zdr_LOCK4res ==
  Switch(zdr_nfsstat4,
    NFS4_OK :> zdr_LOCK4resok @@ NFS4ERR_DENIED :> zdr_LOCK4denied,
    zdr_void)
zdr_LOCKT4args == Struct(<<zdr_nfs_lock_type4, zdr_offset4, zdr_length4,
    zdr_lock_owner4>>)
zdr_LOCKT4res == Switch(zdr_nfsstat4, NFS4ERR_DENIED :> zdr_LOCK4denied, zdr_void)
zdr_LOCKU4args == Struct(<<zdr_nfs_lock_type4, zdr_seqid4, zdr_stateid4, zdr_offset4,
    zdr_length4>>)
zdr_LOCKU4res == Switch(zdr_nfsstat4, NFS4_OK :> zdr_stateid4, zdr_void)
zdr_LOOKUP4args == zdr_component4
zdr_LOOKUP4res == zdr_nfsstat4
zdr_LOOKUPP4res == zdr_nfsstat4
zdr_NVERIFY4args == zdr_fattr4
zdr_NVERIFY4res == zdr_nfsstat4
zdr_createmode4 == zdr_enum
zdr_createhow4 ==
  Switch(zdr_createmode4,
    Cases({UNCHECKED4, GUARDED4}, zdr_fattr4) @@ EXCLUSIVE4 :> zdr_verifier4,
    Refuse)
zdr_opentype4 == zdr_enum
zdr_openflag4 == Switch(zdr_opentype4, OPEN4_CREATE :> zdr_createhow4, zdr_void)
zdr_limit_by4 == zdr_enum
zdr_nfs_modified_limit4 == Struct(<<zdr_uint32_t, zdr_uint32_t>>)
zdr_nfs_space_limit4 ==
  Switch(zdr_limit_by4,
    NFS_LIMIT_SIZE :> zdr_uint64_t @@ NFS_LIMIT_BLOCKS :> zdr_nfs_modified_limit4,
    Refuse)
zdr_open_delegation_type4 == zdr_enum
zdr_open_claim_type4 == zdr_enum
zdr_open_claim_delegate_cur4 == Struct(<<zdr_stateid4, zdr_component4>>)
zdr_open_claim4 ==
  Switch(zdr_open_claim_type4,
    Cases({CLAIM_NULL, CLAIM_DELEGATE_PREV}, zdr_component4) @@
    CLAIM_PREVIOUS :> zdr_open_delegation_type4 @@
    CLAIM_DELEGATE_CUR :> zdr_open_claim_delegate_cur4 @@
    Cases({CLAIM_FH, CLAIM_DELEG_PREV_FH}, zdr_void) @@
    CLAIM_DELEG_CUR_FH :> zdr_stateid4,
    Refuse)
zdr_OPEN4args == Struct(<<zdr_seqid4, zdr_uint32_t, zdr_uint32_t, zdr_open_owner4,
    zdr_openflag4, zdr_open_claim4>>)
zdr_open_read_delegation4 == Struct(<<zdr_stateid4, zdr_bool, zdr_nfsace4>>)
zdr_open_write_delegation4 == Struct(<<zdr_stateid4, zdr_bool, zdr_nfs_space_limit4,
    zdr_nfsace4>>)
zdr_open_delegation4 ==
  Switch(zdr_open_delegation_type4,
    OPEN_DELEGATE_NONE :> zdr_void @@ OPEN_DELEGATE_READ :> zdr_open_read_delegation4 @@
    OPEN_DELEGATE_WRITE :> zdr_open_write_delegation4,
    Refuse)
zdr_OPEN4resok == Struct(<<zdr_stateid4, zdr_change_info4, zdr_uint32_t, zdr_bitmap4,
    zdr_open_delegation4>>)
zdr_OPEN4res == Switch(zdr_nfsstat4, NFS4_OK :> zdr_OPEN4resok, zdr_void)
zdr_OPENATTR4args == zdr_bool
zdr_OPENATTR4res == zdr_nfsstat4
zdr_OPEN_CONFIRM4args == Struct(<<zdr_stateid4, zdr_seqid4>>)
zdr_OPEN_CONFIRM4resok == zdr_stateid4
zdr_OPEN_CONFIRM4res ==
  Switch(zdr_nfsstat4,
    NFS4_OK :> zdr_OPEN_CONFIRM4resok,
    zdr_void)
zdr_OPEN_DOWNGRADE4args == Struct(<<zdr_stateid4, zdr_seqid4, zdr_uint32_t,
    zdr_uint32_t>>)
zdr_OPEN_DOWNGRADE4resok == zdr_stateid4
zdr_OPEN_DOWNGRADE4res ==
  Switch(zdr_nfsstat4,
    NFS4_OK :> zdr_OPEN_DOWNGRADE4resok,
    zdr_void)
zdr_PUTFH4args == zdr_nfs_fh4
zdr_PUTFH4res == zdr_nfsstat4
zdr_PUTPUBFH4res == zdr_nfsstat4
zdr_PUTROOTFH4res == zdr_nfsstat4
zdr_READ4args == Struct(<<zdr_stateid4, zdr_offset4, zdr_count4>>)
zzdr_READ4resok == Struct(<<zdr_bool, zdr_bytes>>)
zdr_READDIR4args == Struct(<<zdr_nfs_cookie4, zdr_verifier4, zdr_count4, zdr_count4,
    zdr_bitmap4>>)
zdr_entry4 == Chain(<<zdr_nfs_cookie4, zdr_component4, zdr_fattr4>>)
zdr_dirlist4 == Struct(<<zdr_pointer(zdr_entry4), zdr_bool>>)
zdr_READDIR4resok == Struct(<<zdr_verifier4, zdr_dirlist4>>)
zdr_READDIR4res == Switch(zdr_nfsstat4, NFS4_OK :> zdr_READDIR4resok, zdr_void)
zdr_READLINK4resok == zdr_linktext4
zdr_READLINK4res == Switch(zdr_nfsstat4, NFS4_OK :> zdr_READLINK4resok, zdr_void)
zdr_REMOVE4args == zdr_component4
zdr_REMOVE4resok == zdr_change_info4
zdr_REMOVE4res == Switch(zdr_nfsstat4, NFS4_OK :> zdr_REMOVE4resok, zdr_void)
zdr_RENAME4args == Struct(<<zdr_component4, zdr_component4>>)
zdr_RENAME4resok == Struct(<<zdr_change_info4, zdr_change_info4>>)
zdr_RENAME4res == Switch(zdr_nfsstat4, NFS4_OK :> zdr_RENAME4resok, zdr_void)
zdr_RENEW4args == zdr_clientid4
zdr_RENEW4res == zdr_nfsstat4
zdr_RESTOREFH4res == zdr_nfsstat4
zdr_SAVEFH4res == zdr_nfsstat4
zdr_SECINFO4args == zdr_component4
zdr_rpc_gss_svc_t == zdr_enum
zdr_rpcsec_gss_info == Struct(<<zdr_sec_oid4, zdr_qop4, zdr_rpc_gss_svc_t>>)
zdr_secinfo4 == Switch(zdr_uint32_t, RPCSEC_GSS :> zdr_rpcsec_gss_info, zdr_void)
zdr_SECINFO4resok == zdr_array(zdr_secinfo4)
zdr_SECINFO4res == Switch(zdr_nfsstat4, NFS4_OK :> zdr_SECINFO4resok, zdr_void)
zdr_SETATTR4args == Struct(<<zdr_stateid4, zdr_fattr4>>)
zdr_SETATTR4res == Struct(<<zdr_nfsstat4, zdr_bitmap4>>)
zdr_SETCLIENTID4args == Struct(<<zdr_nfs_client_id4, zdr_cb_client4, zdr_uint32_t>>)
zdr_SETCLIENTID4resok == Struct(<<zdr_clientid4, zdr_verifier4>>)
zdr_SETCLIENTID4res ==
  Switch(zdr_nfsstat4,
    NFS4_OK :> zdr_SETCLIENTID4resok @@ NFS4ERR_CLID_INUSE :> zdr_clientaddr4,
    zdr_void)
zdr_SETCLIENTID_CONFIRM4args == Struct(<<zdr_clientid4, zdr_verifier4>>)
zdr_SETCLIENTID_CONFIRM4res == zdr_nfsstat4
zdr_VERIFY4args == zdr_fattr4
zdr_VERIFY4res == zdr_nfsstat4
zdr_stable_how4 == zdr_enum
zzdr_WRITE4args == Struct(<<zdr_stateid4, zdr_offset4, zdr_stable_how4, zdr_bytes>>)
zdr_WRITE4resok == Struct(<<zdr_count4, zdr_stable_how4, zdr_verifier4>>)
zdr_WRITE4res == Switch(zdr_nfsstat4, NFS4_OK :> zdr_WRITE4resok, zdr_void)
zdr_RELEASE_LOCKOWNER4args == zdr_lock_owner4
zdr_RELEASE_LOCKOWNER4res == zdr_nfsstat4
zdr_gsshandle4_t == zdr_bytes
zdr_callback_sec_parms4 ==
  Switch(zdr_uint32_t,
    AUTH_NONE :> zdr_void @@ AUTH_SYS :> zdr_authsys_parms,
    Refuse)
zdr_channel_dir_from_client4 == zdr_enum
zdr_BIND_CONN_TO_SESSION4args == Struct(<<zdr_sessionid4, zdr_channel_dir_from_client4,
    zdr_bool>>)
zdr_channel_dir_from_server4 == zdr_enum
zdr_BIND_CONN_TO_SESSION4resok == Struct(<<zdr_sessionid4, zdr_channel_dir_from_server4,
    zdr_bool>>)
zdr_BIND_CONN_TO_SESSION4res ==
  Switch(zdr_nfsstat4,
    NFS4_OK :> zdr_BIND_CONN_TO_SESSION4resok,
    zdr_void)
zdr_state_protect_ops4 == Struct(<<zdr_bitmap4, zdr_bitmap4>>)
zdr_ssv_sp_parms4 == Struct(<<zdr_state_protect_ops4, zdr_array(zdr_sec_oid4),
    zdr_array(zdr_sec_oid4), zdr_uint32_t, zdr_uint32_t>>)
zdr_state_protect_how4 == zdr_enum
zdr_state_protect4_a ==
  Switch(zdr_state_protect_how4,
    SP4_NONE :> zdr_void @@ SP4_MACH_CRED :> zdr_state_protect_ops4 @@
    SP4_SSV :> zdr_ssv_sp_parms4,
    Refuse)
zdr_EXCHANGE_ID4args == Struct(<<zdr_client_owner4, zdr_uint32_t, zdr_state_protect4_a,
    zdr_array(zdr_nfs_impl_id4)>>)
zdr_ssv_prot_info4 == Struct(<<zdr_state_protect_ops4, zdr_uint32_t, zdr_uint32_t,
    zdr_uint32_t, zdr_uint32_t, zdr_array(zdr_gsshandle4_t)>>)
zdr_state_protect4_r ==
  Switch(zdr_state_protect_how4,
    SP4_NONE :> zdr_void @@ SP4_MACH_CRED :> zdr_state_protect_ops4 @@
    SP4_SSV :> zdr_ssv_prot_info4,
    Refuse)
zdr_EXCHANGE_ID4resok == Struct(<<zdr_clientid4, zdr_sequenceid4, zdr_uint32_t,
    zdr_state_protect4_r, zdr_server_owner4, zdr_bytes, zdr_array(zdr_nfs_impl_id4)>>)
zdr_EXCHANGE_ID4res == Switch(zdr_nfsstat4, NFS4_OK :> zdr_EXCHANGE_ID4resok, zdr_void)
zdr_channel_attrs4 == Struct(<<zdr_count4, zdr_count4, zdr_count4, zdr_count4,
    zdr_count4, zdr_count4, zdr_array(zdr_uint32_t)>>)
zdr_CREATE_SESSION4args == Struct(<<zdr_clientid4, zdr_sequenceid4, zdr_uint32_t,
    zdr_channel_attrs4, zdr_channel_attrs4, zdr_uint32_t,
    zdr_array(zdr_callback_sec_parms4)>>)
zdr_CREATE_SESSION4resok == Struct(<<zdr_sessionid4, zdr_sequenceid4, zdr_uint32_t,
    zdr_channel_attrs4, zdr_channel_attrs4>>)
zdr_CREATE_SESSION4res ==
  Switch(zdr_nfsstat4,
    NFS4_OK :> zdr_CREATE_SESSION4resok,
    zdr_void)
zdr_DESTROY_SESSION4args == zdr_sessionid4
zdr_DESTROY_SESSION4res == zdr_nfsstat4
zdr_FREE_STATEID4args == zdr_stateid4
zdr_FREE_STATEID4res == zdr_nfsstat4
zdr_attr_notice4 == zdr_nfstime4
zdr_GET_DIR_DELEGATION4args == Struct(<<zdr_bool, zdr_bitmap4, zdr_attr_notice4,
    zdr_attr_notice4, zdr_bitmap4, zdr_bitmap4>>)
zdr_GET_DIR_DELEGATION4resok == Struct(<<zdr_verifier4, zdr_stateid4, zdr_bitmap4,
    zdr_bitmap4, zdr_bitmap4>>)
zdr_gddrnf4_status == zdr_enum
zdr_GET_DIR_DELEGATION4res_non_fatal ==
  Switch(zdr_gddrnf4_status,
    GDD4_OK :> zdr_GET_DIR_DELEGATION4resok @@ GDD4_UNAVAIL :> zdr_bool,
    Refuse)
zdr_GET_DIR_DELEGATION4res ==
  Switch(zdr_nfsstat4,
    NFS4_OK :> zdr_GET_DIR_DELEGATION4res_non_fatal,
    zdr_void)
zdr_GETDEVICEINFO4args == Struct(<<zdr_deviceid4, zdr_layouttype4, zdr_count4,
    zdr_bitmap4>>)
zdr_GETDEVICEINFO4resok == Struct(<<zdr_device_addr4, zdr_bitmap4>>)
zdr_GETDEVICEINFO4res ==
  Switch(zdr_nfsstat4,
    NFS4_OK :> zdr_GETDEVICEINFO4resok @@ NFS4ERR_TOOSMALL :> zdr_count4,
    zdr_void)
zdr_GETDEVICELIST4args == Struct(<<zdr_layouttype4, zdr_count4, zdr_nfs_cookie4,
    zdr_verifier4>>)
zdr_GETDEVICELIST4resok == Struct(<<zdr_nfs_cookie4, zdr_verifier4,
    zdr_array(zdr_deviceid4), zdr_bool>>)
zdr_GETDEVICELIST4res ==
  Switch(zdr_nfsstat4,
    NFS4_OK :> zdr_GETDEVICELIST4resok,
    zdr_void)
zdr_newtime4 == Switch(zdr_bool, 1 :> zdr_nfstime4 @@ 0 :> zdr_void, Refuse)
zdr_newoffset4 == Switch(zdr_bool, 1 :> zdr_offset4 @@ 0 :> zdr_void, Refuse)
zdr_LAYOUTCOMMIT4args == Struct(<<zdr_offset4, zdr_length4, zdr_bool, zdr_stateid4,
    zdr_newoffset4, zdr_newtime4, zdr_layoutupdate4>>)
zdr_newsize4 == Switch(zdr_bool, 1 :> zdr_length4 @@ 0 :> zdr_void, Refuse)
zdr_LAYOUTCOMMIT4resok == zdr_newsize4
zdr_LAYOUTCOMMIT4res ==
  Switch(zdr_nfsstat4,
    NFS4_OK :> zdr_LAYOUTCOMMIT4resok,
    zdr_void)
zdr_LAYOUTGET4args == Struct(<<zdr_bool, zdr_layouttype4, zdr_layoutiomode4,
    zdr_offset4, zdr_length4, zdr_length4, zdr_stateid4, zdr_count4>>)
zdr_LAYOUTGET4resok == Struct(<<zdr_bool, zdr_stateid4, zdr_array(zdr_layout4)>>)
zdr_LAYOUTGET4res ==
  Switch(zdr_nfsstat4,
    NFS4_OK :> zdr_LAYOUTGET4resok @@ NFS4ERR_LAYOUTTRYLATER :> zdr_bool,
    zdr_void)
zdr_layoutreturn_type4 == zdr_enum
zdr_layoutreturn_file4 == Struct(<<zdr_offset4, zdr_length4, zdr_stateid4, zdr_bytes>>)
zdr_layoutreturn4 ==
  Switch(zdr_layoutreturn_type4,
    LAYOUTRETURN4_FILE :> zdr_layoutreturn_file4,
    zdr_void)
zdr_LAYOUTRETURN4args == Struct(<<zdr_bool, zdr_layouttype4, zdr_layoutiomode4,
    zdr_layoutreturn4>>)
zdr_layoutreturn_stateid == Switch(zdr_bool, 1 :> zdr_stateid4 @@ 0 :> zdr_void, Refuse)
zdr_LAYOUTRETURN4res ==
  Switch(zdr_nfsstat4,
    NFS4_OK :> zdr_layoutreturn_stateid,
    zdr_void)
zdr_secinfo_style4 == zdr_enum
zdr_SECINFO_NO_NAME4args == zdr_secinfo_style4
zdr_SECINFO_NO_NAME4res == zdr_SECINFO4res
zdr_SEQUENCE4args == Struct(<<zdr_sessionid4, zdr_sequenceid4, zdr_slotid4, zdr_slotid4,
    zdr_bool>>)
zdr_SEQUENCE4resok == Struct(<<zdr_sessionid4, zdr_sequenceid4, zdr_slotid4,
    zdr_slotid4, zdr_slotid4, zdr_uint32_t>>)
zdr_SEQUENCE4res == Switch(zdr_nfsstat4, NFS4_OK :> zdr_SEQUENCE4resok, zdr_void)
zdr_SET_SSV4args == Struct(<<zdr_bytes, zdr_bytes>>)
zdr_SET_SSV4resok == zdr_bytes
zdr_SET_SSV4res == Switch(zdr_nfsstat4, NFS4_OK :> zdr_SET_SSV4resok, zdr_void)
zdr_TEST_STATEID4args == zdr_array(zdr_stateid4)
zdr_TEST_STATEID4resok == zdr_array(zdr_nfsstat4)
zdr_TEST_STATEID4res ==
  Switch(zdr_nfsstat4,
    NFS4_OK :> zdr_TEST_STATEID4resok,
    zdr_void)
zdr_deleg_claim4 ==
  Switch(zdr_open_claim_type4,
    Cases({CLAIM_FH, CLAIM_DELEG_PREV_FH}, zdr_void) @@
    CLAIM_PREVIOUS :> zdr_open_delegation_type4,
    Refuse)
zdr_WANT_DELEGATION4args == Struct(<<zdr_uint32_t, zdr_deleg_claim4>>)
zdr_WANT_DELEGATION4res ==
  Switch(zdr_nfsstat4,
    NFS4_OK :> zdr_open_delegation4,
    zdr_void)
zdr_DESTROY_CLIENTID4args == zdr_clientid4
zdr_DESTROY_CLIENTID4res == zdr_nfsstat4
zdr_RECLAIM_COMPLETE4args == zdr_bool
zdr_RECLAIM_COMPLETE4res == zdr_nfsstat4
zdr_ILLEGAL4res == zdr_nfsstat4
zdr_nfs_opnum4 == zdr_enum
zdr_READ4resok == Struct(<<zdr_bool, Peek>>)
zdr_READ4res == Switch(zdr_nfsstat4, NFS4_OK :> zdr_READ4resok, zdr_void)
zdr_nfs_resop4 ==
  Switch(zdr_nfs_opnum4,
    OP_ACCESS :> zdr_ACCESS4res @@ OP_CLOSE :> zdr_CLOSE4res @@
    OP_COMMIT :> zdr_COMMIT4res @@ OP_CREATE :> zdr_CREATE4res @@
    OP_DELEGPURGE :> zdr_DELEGPURGE4res @@ OP_DELEGRETURN :> zdr_DELEGRETURN4res @@
    OP_GETATTR :> zdr_GETATTR4res @@ OP_GETFH :> zdr_GETFH4res @@
    OP_LINK :> zdr_LINK4res @@ OP_LOCK :> zdr_LOCK4res @@ OP_LOCKT :> zdr_LOCKT4res @@
    OP_LOCKU :> zdr_LOCKU4res @@ OP_LOOKUP :> zdr_LOOKUP4res @@
    OP_LOOKUPP :> zdr_LOOKUPP4res @@ OP_NVERIFY :> zdr_NVERIFY4res @@
    OP_OPEN :> zdr_OPEN4res @@ OP_OPENATTR :> zdr_OPENATTR4res @@
    OP_OPEN_CONFIRM :> zdr_OPEN_CONFIRM4res @@
    OP_OPEN_DOWNGRADE :> zdr_OPEN_DOWNGRADE4res @@ OP_PUTFH :> zdr_PUTFH4res @@
    OP_PUTPUBFH :> zdr_PUTPUBFH4res @@ OP_PUTROOTFH :> zdr_PUTROOTFH4res @@
    OP_READ :> zdr_READ4res @@ OP_READDIR :> zdr_READDIR4res @@
    OP_READLINK :> zdr_READLINK4res @@ OP_REMOVE :> zdr_REMOVE4res @@
    OP_RENAME :> zdr_RENAME4res @@ OP_RENEW :> zdr_RENEW4res @@
    OP_RESTOREFH :> zdr_RESTOREFH4res @@ OP_SAVEFH :> zdr_SAVEFH4res @@
    OP_SECINFO :> zdr_SECINFO4res @@ OP_SETATTR :> zdr_SETATTR4res @@
    OP_SETCLIENTID :> zdr_SETCLIENTID4res @@
    OP_SETCLIENTID_CONFIRM :> zdr_SETCLIENTID_CONFIRM4res @@
    OP_VERIFY :> zdr_VERIFY4res @@ OP_WRITE :> zdr_WRITE4res @@
    OP_RELEASE_LOCKOWNER :> zdr_RELEASE_LOCKOWNER4res @@
    OP_BIND_CONN_TO_SESSION :> zdr_BIND_CONN_TO_SESSION4res @@
    OP_EXCHANGE_ID :> zdr_EXCHANGE_ID4res @@
    OP_CREATE_SESSION :> zdr_CREATE_SESSION4res @@
    OP_DESTROY_SESSION :> zdr_DESTROY_SESSION4res @@
    OP_FREE_STATEID :> zdr_FREE_STATEID4res @@
    OP_GET_DIR_DELEGATION :> zdr_GET_DIR_DELEGATION4res @@
    OP_GETDEVICEINFO :> zdr_GETDEVICEINFO4res @@
    OP_GETDEVICELIST :> zdr_GETDEVICELIST4res @@
    OP_LAYOUTCOMMIT :> zdr_LAYOUTCOMMIT4res @@ OP_LAYOUTGET :> zdr_LAYOUTGET4res @@
    OP_LAYOUTRETURN :> zdr_LAYOUTRETURN4res @@
    OP_SECINFO_NO_NAME :> zdr_SECINFO_NO_NAME4res @@ OP_SEQUENCE :> zdr_SEQUENCE4res @@
    OP_SET_SSV :> zdr_SET_SSV4res @@ OP_TEST_STATEID :> zdr_TEST_STATEID4res @@
    OP_WANT_DELEGATION :> zdr_WANT_DELEGATION4res @@
    OP_DESTROY_CLIENTID :> zdr_DESTROY_CLIENTID4res @@
    OP_RECLAIM_COMPLETE :> zdr_RECLAIM_COMPLETE4res @@ OP_ILLEGAL :> zdr_ILLEGAL4res,
    Refuse)
zdr_COMPOUND4res == Struct(<<zdr_nfsstat4, zdr_utf8str_cs, zdr_array(zdr_nfs_resop4)>>)
zdr_WRITE4args == Struct(<<zdr_stateid4, zdr_offset4, zdr_stable_how4>>)
zdr_nfs_argop4 ==
  Switch(zdr_nfs_opnum4,
    OP_ACCESS :> zdr_ACCESS4args @@ OP_CLOSE :> zdr_CLOSE4args @@
    OP_COMMIT :> zdr_COMMIT4args @@ OP_CREATE :> zdr_CREATE4args @@
    OP_DELEGPURGE :> zdr_DELEGPURGE4args @@ OP_DELEGRETURN :> zdr_DELEGRETURN4args @@
    OP_GETATTR :> zdr_GETATTR4args @@
    Cases({OP_GETFH, OP_LOOKUPP, OP_PUTPUBFH, OP_PUTROOTFH, OP_READLINK,
           OP_RESTOREFH, OP_SAVEFH, OP_ILLEGAL}, zdr_void) @@
    OP_LINK :> zdr_LINK4args @@ OP_LOCK :> zdr_LOCK4args @@
    OP_LOCKT :> zdr_LOCKT4args @@ OP_LOCKU :> zdr_LOCKU4args @@
    OP_LOOKUP :> zdr_LOOKUP4args @@ OP_NVERIFY :> zdr_NVERIFY4args @@
    OP_OPEN :> zdr_OPEN4args @@ OP_OPENATTR :> zdr_OPENATTR4args @@
    OP_OPEN_CONFIRM :> zdr_OPEN_CONFIRM4args @@
    OP_OPEN_DOWNGRADE :> zdr_OPEN_DOWNGRADE4args @@ OP_PUTFH :> zdr_PUTFH4args @@
    OP_READ :> zdr_READ4args @@ OP_READDIR :> zdr_READDIR4args @@
    OP_REMOVE :> zdr_REMOVE4args @@ OP_RENAME :> zdr_RENAME4args @@
    OP_RENEW :> zdr_RENEW4args @@ OP_SECINFO :> zdr_SECINFO4args @@
    OP_SETATTR :> zdr_SETATTR4args @@ OP_SETCLIENTID :> zdr_SETCLIENTID4args @@
    OP_SETCLIENTID_CONFIRM :> zdr_SETCLIENTID_CONFIRM4args @@
    OP_VERIFY :> zdr_VERIFY4args @@ OP_WRITE :> zdr_WRITE4args @@
    OP_RELEASE_LOCKOWNER :> zdr_RELEASE_LOCKOWNER4args @@
    OP_BIND_CONN_TO_SESSION :> zdr_BIND_CONN_TO_SESSION4args @@
    OP_EXCHANGE_ID :> zdr_EXCHANGE_ID4args @@
    OP_CREATE_SESSION :> zdr_CREATE_SESSION4args @@
    OP_DESTROY_SESSION :> zdr_DESTROY_SESSION4args @@
    OP_FREE_STATEID :> zdr_FREE_STATEID4args @@
    OP_GET_DIR_DELEGATION :> zdr_GET_DIR_DELEGATION4args @@
    OP_GETDEVICEINFO :> zdr_GETDEVICEINFO4args @@
    OP_GETDEVICELIST :> zdr_GETDEVICELIST4args @@
    OP_LAYOUTCOMMIT :> zdr_LAYOUTCOMMIT4args @@ OP_LAYOUTGET :> zdr_LAYOUTGET4args @@
    OP_LAYOUTRETURN :> zdr_LAYOUTRETURN4args @@
    OP_SECINFO_NO_NAME :> zdr_SECINFO_NO_NAME4args @@
    OP_SEQUENCE :> zdr_SEQUENCE4args @@ OP_SET_SSV :> zdr_SET_SSV4args @@
    OP_TEST_STATEID :> zdr_TEST_STATEID4args @@
    OP_WANT_DELEGATION :> zdr_WANT_DELEGATION4args @@
    OP_DESTROY_CLIENTID :> zdr_DESTROY_CLIENTID4args @@
    OP_RECLAIM_COMPLETE :> zdr_RECLAIM_COMPLETE4args,
    Refuse)
zdr_COMPOUND4args == Struct(<<zdr_utf8str_cs, zdr_uint32_t, zdr_array(zdr_nfs_argop4)>>)

=============================================================================
