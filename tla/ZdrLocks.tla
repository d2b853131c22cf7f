------------------------------- MODULE ZdrLocks -------------------------------
(***************************************************************************)
(* The routines of NLM, NSM and RQUOTA (nlm/, nsm/ and rquota/libnfs-      *)
(* raw-*.c): which routines each of them calls, in order. A struct of one  *)
(* field is described as the field.                                        *)
(***************************************************************************)
EXTENDS Zdr

\* The cases of the switches.
NLM4_DENIED == 1
RQUOTA_OK == 1

zdr_nlm_fh4 == zdr_bytes
zdr_nlm4_oh == zdr_string
zdr_nlm_cookie == zdr_bytes
zdr_nlmstat4 == zdr_enum
zdr_nlm4_holder == Struct(<<zdr_bool, zdr_u_int, zdr_nlm4_oh, zdr_uint64_t,
    zdr_uint64_t>>)
zdr_nlm4_lock == Struct(<<zdr_string, zdr_nlm_fh4, zdr_nlm4_oh, zdr_u_int, zdr_uint64_t,
    zdr_uint64_t>>)
zdr_nlm4_share == Struct(<<zdr_string, zdr_nlm_fh4, zdr_nlm4_oh, zdr_u_int, zdr_u_int>>)
zdr_nlm4_testres_denied == zdr_nlm4_holder
zdr_nlm4_testreply ==
  Switch(zdr_nlmstat4,
    NLM4_DENIED :> zdr_nlm4_testres_denied,
    zdr_void)
zdr_NLM4_TESTres == Struct(<<zdr_nlm_cookie, zdr_nlm4_testreply>>)
zdr_NLM4_TESTargs == Struct(<<zdr_nlm_cookie, zdr_bool, zdr_nlm4_lock>>)
zdr_NLM4_CANCres == Struct(<<zdr_nlm_cookie, zdr_nlmstat4>>)
zdr_NLM4_CANCargs == Struct(<<zdr_nlm_cookie, zdr_bool, zdr_bool, zdr_nlm4_lock>>)
zdr_NLM4_UNLOCKres == Struct(<<zdr_nlm_cookie, zdr_nlmstat4>>)
zdr_NLM4_UNLOCKargs == Struct(<<zdr_nlm_cookie, zdr_nlm4_lock>>)
zdr_NLM4_LOCKres == Struct(<<zdr_nlm_cookie, zdr_nlmstat4>>)
zdr_NLM4_LOCKargs == Struct(<<zdr_nlm_cookie, zdr_bool, zdr_bool, zdr_nlm4_lock,
    zdr_bool, zdr_int>>)
zdr_NLM4_SHAREres == Struct(<<zdr_nlm_cookie, zdr_nlmstat4>>)
zdr_NLM4_SHAREargs == Struct(<<zdr_nlm_cookie, zdr_nlm4_share, zdr_bool>>)
zdr_NLM4_UNSHAREres == Struct(<<zdr_nlm_cookie, zdr_nlmstat4>>)
zdr_NLM4_UNSHAREargs == Struct(<<zdr_nlm_cookie, zdr_nlm4_share, zdr_bool>>)
zdr_nsmstat1 == zdr_enum
zdr_nsm_my_id == Struct(<<zdr_string, zdr_int, zdr_int, zdr_int>>)
zdr_nsm_mon_id == Struct(<<zdr_string, zdr_nsm_my_id>>)
zdr_NSM1_STATres == Struct(<<zdr_nsmstat1, zdr_int>>)
zdr_NSM1_STATargs == zdr_string
zdr_NSM1_MONres == Struct(<<zdr_nsmstat1, zdr_int>>)
zdr_NSM1_MONargs == Struct(<<zdr_nsm_mon_id, zdr_opaque(16)>>)
zdr_NSM1_UNMONres == zdr_int
zdr_NSM1_UNMONargs == zdr_nsm_mon_id
zdr_NSM1_UNMONALLres == zdr_int
zdr_NSM1_UNMONALLargs == zdr_nsm_my_id
zdr_NSM1_NOTIFYargs == Struct(<<zdr_string, zdr_int>>)
zdr_rquotastat == zdr_enum
zdr_exportpath == zdr_string
zdr_GETQUOTA1args == Struct(<<zdr_exportpath, zdr_int>>)
zdr_quotatype == zdr_enum
zdr_GETQUOTA2args == Struct(<<zdr_exportpath, zdr_quotatype, zdr_int>>)
zdr_GETQUOTA1res_ok == Struct(<<zdr_int, zdr_int, zdr_int, zdr_int, zdr_int, zdr_int,
    zdr_int, zdr_int, zdr_int, zdr_int>>)
zdr_GETQUOTA1res == Switch(zdr_rquotastat, RQUOTA_OK :> zdr_GETQUOTA1res_ok, zdr_void)

=============================================================================
