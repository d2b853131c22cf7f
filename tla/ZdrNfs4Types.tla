----------------------------- MODULE ZdrNfs4Types -----------------------------
(***************************************************************************)
(* The types the operations of NFS version 4 and 4.1 share, and the cases  *)
(* of its switches (nfs4/libnfs-raw-nfs4.c): which routines each routine   *)
(* calls, in order.  A struct of one field is described as the field.      *)
(***************************************************************************)
EXTENDS Zdr

\* The cases of the switches.
NFS4_OK == 0
NF4LNK == 5
NF4BLK == 3
NF4CHR == 4
NFS4ERR_DENIED == 10010
UNCHECKED4 == 0
GUARDED4 == 1
EXCLUSIVE4 == 2
OPEN4_CREATE == 1
NFS_LIMIT_SIZE == 1
NFS_LIMIT_BLOCKS == 2
CLAIM_NULL == 0
CLAIM_PREVIOUS == 1
CLAIM_DELEGATE_CUR == 2
CLAIM_DELEGATE_PREV == 3
CLAIM_FH == 4
CLAIM_DELEG_PREV_FH == 6
CLAIM_DELEG_CUR_FH == 5
OPEN_DELEGATE_NONE == 0
OPEN_DELEGATE_READ == 1
OPEN_DELEGATE_WRITE == 2
RPCSEC_GSS == 6
NFS4ERR_CLID_INUSE == 10017
SP4_NONE == 0
SP4_MACH_CRED == 1
SP4_SSV == 2
GDD4_OK == 0
GDD4_UNAVAIL == 1
NFS4ERR_TOOSMALL == 10005
NFS4ERR_LAYOUTTRYLATER == 10058
LAYOUTRETURN4_FILE == 1
OP_ACCESS == 3
OP_CLOSE == 4
OP_COMMIT == 5
OP_CREATE == 6
OP_DELEGPURGE == 7
OP_DELEGRETURN == 8
OP_GETATTR == 9
OP_GETFH == 10
OP_LINK == 11
OP_LOCK == 12
OP_LOCKT == 13
OP_LOCKU == 14
OP_LOOKUP == 15
OP_LOOKUPP == 16
OP_NVERIFY == 17
OP_OPEN == 18
OP_OPENATTR == 19
OP_OPEN_CONFIRM == 20
OP_OPEN_DOWNGRADE == 21
OP_PUTFH == 22
OP_PUTPUBFH == 23
OP_PUTROOTFH == 24
OP_READ == 25
OP_READDIR == 26
OP_READLINK == 27
OP_REMOVE == 28
OP_RENAME == 29
OP_RENEW == 30
OP_RESTOREFH == 31
OP_SAVEFH == 32
OP_SECINFO == 33
OP_SETATTR == 34
OP_SETCLIENTID == 35
OP_SETCLIENTID_CONFIRM == 36
OP_VERIFY == 37
OP_WRITE == 38
OP_RELEASE_LOCKOWNER == 39
OP_BIND_CONN_TO_SESSION == 41
OP_EXCHANGE_ID == 42
OP_CREATE_SESSION == 43
OP_DESTROY_SESSION == 44
OP_FREE_STATEID == 45
OP_GET_DIR_DELEGATION == 46
OP_GETDEVICEINFO == 47
OP_GETDEVICELIST == 48
OP_LAYOUTCOMMIT == 49
OP_LAYOUTGET == 50
OP_LAYOUTRETURN == 51
OP_SECINFO_NO_NAME == 52
OP_SEQUENCE == 53
OP_SET_SSV == 54
OP_TEST_STATEID == 55
OP_WANT_DELEGATION == 56
OP_DESTROY_CLIENTID == 57
OP_RECLAIM_COMPLETE == 58
OP_ILLEGAL == 10044

zdr_nfs_ftype4 == zdr_enum
zdr_nfsstat4 == zdr_enum
zdr_bitmap4 == zdr_array(zdr_uint32_t)
zdr_offset4 == zdr_uint64_t
zdr_count4 == zdr_uint32_t
zdr_length4 == zdr_uint64_t
zdr_clientid4 == zdr_uint64_t
zdr_sequenceid4 == zdr_uint32_t
zdr_seqid4 == zdr_uint32_t
zdr_slotid4 == zdr_uint32_t
zdr_utf8string == zdr_bytes
zdr_utf8str_cis == zdr_utf8string
zdr_utf8str_cs == zdr_utf8string
zdr_utf8str_mixed == zdr_utf8string
zdr_component4 == zdr_utf8str_cs
zdr_nfs_cookie4 == zdr_uint64_t
zdr_linktext4 == zdr_utf8str_cs
zdr_sec_oid4 == zdr_bytes
zdr_qop4 == zdr_uint32_t
zdr_changeid4 == zdr_uint64_t
zdr_verifier4 == zdr_opaque(8)
zdr_sessionid4 == zdr_opaque(16)
zdr_authsys_parms == Struct(<<zdr_u_int, zdr_string, zdr_u_int, zdr_u_int,
    zdr_array(zdr_u_int)>>)
zdr_deviceid4 == zdr_opaque(16)
zdr_layouttype4 == zdr_enum
zdr_layoutupdate4 == Struct(<<zdr_layouttype4, zdr_bytes>>)
zdr_device_addr4 == Struct(<<zdr_layouttype4, zdr_bytes>>)
zdr_nfstime4 == Struct(<<zdr_int64_t, zdr_uint32_t>>)
zdr_layoutiomode4 == zdr_enum
zdr_layout_content4 == Struct(<<zdr_layouttype4, zdr_bytes>>)
zdr_layout4 == Struct(<<zdr_offset4, zdr_length4, zdr_layoutiomode4,
    zdr_layout_content4>>)
zdr_nfs_fh4 == zdr_bytes
zdr_acetype4 == zdr_uint32_t
zdr_aceflag4 == zdr_uint32_t
zdr_acemask4 == zdr_uint32_t
zdr_nfsace4 == Struct(<<zdr_acetype4, zdr_aceflag4, zdr_acemask4, zdr_utf8str_mixed>>)
zdr_specdata4 == Struct(<<zdr_uint32_t, zdr_uint32_t>>)
zdr_attrlist4 == zdr_bytes
zdr_fattr4 == Struct(<<zdr_bitmap4, zdr_attrlist4>>)
zdr_change_info4 == Struct(<<zdr_bool, zdr_changeid4, zdr_changeid4>>)
zdr_clientaddr4 == Struct(<<zdr_string, zdr_string>>)
zdr_cb_client4 == Struct(<<zdr_uint32_t, zdr_clientaddr4>>)
zdr_stateid4 == Struct(<<zdr_uint32_t, zdr_opaque(12)>>)
zdr_nfs_client_id4 == Struct(<<zdr_verifier4, zdr_bytes>>)
zdr_open_owner4 == Struct(<<zdr_clientid4, zdr_bytes>>)
zdr_lock_owner4 == Struct(<<zdr_clientid4, zdr_bytes>>)
zdr_nfs_lock_type4 == zdr_enum
zdr_client_owner4 == Struct(<<zdr_verifier4, zdr_bytes>>)
zdr_server_owner4 == Struct(<<zdr_uint64_t, zdr_bytes>>)
zdr_nfs_impl_id4 == Struct(<<zdr_utf8str_cis, zdr_utf8str_cs, zdr_nfstime4>>)

================================================================================
