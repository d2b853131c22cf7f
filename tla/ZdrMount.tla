------------------------------- MODULE ZdrMount -------------------------------
(***************************************************************************)
(* The routines of MOUNT versions 1 and 3 (mount/libnfs-raw-mount.c):      *)
(* which routines each of them calls, in order. A struct of one field is   *)
(* described as the field.                                                 *)
(***************************************************************************)
EXTENDS Zdr

\* The cases of the switches.
MNT3_OK == 0
MNT1_OK == 0

zdr_fhandle3 == zdr_bytes
zdr_dirpath == zdr_string
zdr_name == zdr_string
zdr_mountstat3 == zdr_enum
zdr_mountbody == Chain(<<zdr_name, zdr_dirpath>>)
zdr_mountlist == zdr_pointer(zdr_mountbody)
zdr_groupnode == Chain(<<zdr_name>>)
zdr_groups == zdr_pointer(zdr_groupnode)
zdr_exportnode == Chain(<<zdr_dirpath, zdr_groups>>)
zdr_exports == zdr_pointer(zdr_exportnode)
zdr_mountres3_ok == Struct(<<zdr_fhandle3, zdr_array(zdr_int)>>)
zdr_mountres3 == Switch(zdr_mountstat3, MNT3_OK :> zdr_mountres3_ok, zdr_void)
zdr_mountstat1 == zdr_enum
zdr_fhandle1 == zdr_opaque(32)
zdr_mountres1_ok == zdr_fhandle1
zdr_mountres1 == Switch(zdr_mountstat1, MNT1_OK :> zdr_mountres1_ok, zdr_void)
zdr_MOUNT3MNTargs == zdr_dirpath
zdr_MOUNT3UMNTargs == zdr_dirpath

=============================================================================
