------------------------------ MODULE RpcStubs ------------------------------
(***************************************************************************)
(* The stubs rpc_*_task of the raw interface: which procedure each of them *)
(* calls, which routine marshals its arguments and which one the reply is  *)
(* unmarshalled with.  A stub that takes the fields of its argument one by *)
(* one (the port mapper, MOUNT, RQUOTA) is given the argument.             *)
(***************************************************************************)
EXTENDS ZdrNfs, ZdrNfs4, ZdrMount, ZdrPortmap, ZdrLocks

\* hint is the field of the arguments passed as alloc_hint, 0 if there is none.
Task(prog, vers, proc, Args, Res) ==
  [id |-> <<prog, vers, proc>>, args |-> Args, res |-> Res, kind |-> "plain", hint |-> 0]
Hinted(field, task) == [task EXCEPT !.hint = field]
ZeroCopy(kind, task) == [task EXCEPT !.kind = kind]

NFS_PROGRAM == 100003
NFS_V3 == 3
NFS_V2 == 2
NFSACL_PROGRAM == 100227
NFSACL_V3 == 3
NFS4_PROGRAM == 100003
NFS_V4 == 4
MOUNT_PROGRAM == 100005
MOUNT_V3 == 3
MOUNT_V1 == 1
PMAP_PROGRAM == 100000
PMAP_V2 == 2
PMAP_V3 == 3
PMAP_V4 == 4
NLM_PROGRAM == 100021
NLM_V4 == 4
NSM_PROGRAM == 100024
NSM_V1 == 1
RQUOTA_PROGRAM == 100011
RQUOTA_V1 == 1
RQUOTA_V2 == 2

\* NFS 3 (nfs/nfs.c)
rpc_nfs3_null_task == Task(NFS_PROGRAM, NFS_V3, 0, zdr_void, zdr_void)
rpc_nfs3_getattr_task == Task(NFS_PROGRAM, NFS_V3, 1, zdr_GETATTR3args, zdr_GETATTR3res)
rpc_nfs3_pathconf_task ==
  Task(NFS_PROGRAM, NFS_V3, 20, zdr_PATHCONF3args, zdr_PATHCONF3res)
rpc_nfs3_lookup_task == Task(NFS_PROGRAM, NFS_V3, 3, zdr_LOOKUP3args, zdr_LOOKUP3res)
rpc_nfs3_access_task == Task(NFS_PROGRAM, NFS_V3, 4, zdr_ACCESS3args, zdr_ACCESS3res)
rpc_nfs3_commit_task == Task(NFS_PROGRAM, NFS_V3, 21, zdr_COMMIT3args, zdr_COMMIT3res)
rpc_nfs3_setattr_task == Task(NFS_PROGRAM, NFS_V3, 2, zdr_SETATTR3args, zdr_SETATTR3res)
rpc_nfs3_mkdir_task == Task(NFS_PROGRAM, NFS_V3, 9, zdr_MKDIR3args, zdr_MKDIR3res)
rpc_nfs3_rmdir_task == Task(NFS_PROGRAM, NFS_V3, 13, zdr_RMDIR3args, zdr_RMDIR3res)
rpc_nfs3_create_task == Task(NFS_PROGRAM, NFS_V3, 8, zdr_CREATE3args, zdr_CREATE3res)
rpc_nfs3_mknod_task == Task(NFS_PROGRAM, NFS_V3, 11, zdr_MKNOD3args, zdr_MKNOD3res)
rpc_nfs3_remove_task == Task(NFS_PROGRAM, NFS_V3, 12, zdr_REMOVE3args, zdr_REMOVE3res)
rpc_nfs3_readdir_task ==
  Task(NFS_PROGRAM, NFS_V3, 16, zdr_READDIR3args, zdr_READDIR3res)
rpc_nfs3_readdirplus_task ==
  Task(NFS_PROGRAM, NFS_V3, 17, zdr_READDIRPLUS3args, zdr_READDIRPLUS3res)
rpc_nfs3_fsstat_task == Task(NFS_PROGRAM, NFS_V3, 18, zdr_FSSTAT3args, zdr_FSSTAT3res)
rpc_nfs3_fsinfo_task == Task(NFS_PROGRAM, NFS_V3, 19, zdr_FSINFO3args, zdr_FSINFO3res)
rpc_nfs3_readlink_task ==
  Task(NFS_PROGRAM, NFS_V3, 5, zdr_READLINK3args, zdr_READLINK3res)
rpc_nfs3_symlink_task ==
  Task(NFS_PROGRAM, NFS_V3, 10, zdr_SYMLINK3args, zdr_SYMLINK3res)
rpc_nfs3_rename_task == Task(NFS_PROGRAM, NFS_V3, 14, zdr_RENAME3args, zdr_RENAME3res)
rpc_nfs3_link_task == Task(NFS_PROGRAM, NFS_V3, 15, zdr_LINK3args, zdr_LINK3res)
zdr_READ3resok_zero_copy == Struct(<<zdr_post_op_attr, zdr_count3, zdr_bool>>)
zdr_READ3res_zero_copy ==
  Switch(zdr_nfsstat3, NFS3_OK :> zdr_READ3resok_zero_copy, zdr_READ3resfail)
zdr_WRITE3args_zerocopy == Struct(<<zdr_nfs_fh3, zdr_offset3, zdr_count3, zdr_stable_how>>)
rpc_nfs3_readv_task ==
  ZeroCopy("read", Task(NFS_PROGRAM, NFS_V3, 6, zdr_READ3args, zdr_READ3res_zero_copy))
rpc_nfs3_writev_task ==
  ZeroCopy("write", Task(NFS_PROGRAM, NFS_V3, 7, zdr_WRITE3args_zerocopy, zdr_WRITE3res))

\* NFS 2 (nfs/nfs.c)
rpc_nfs2_null_task == Task(NFS_PROGRAM, NFS_V2, 0, zdr_void, zdr_void)
rpc_nfs2_getattr_task == Task(NFS_PROGRAM, NFS_V2, 1, zdr_GETATTR2args, zdr_GETATTR2res)
rpc_nfs2_setattr_task == Task(NFS_PROGRAM, NFS_V2, 2, zdr_SETATTR2args, zdr_SETATTR2res)
rpc_nfs2_lookup_task == Task(NFS_PROGRAM, NFS_V2, 4, zdr_LOOKUP2args, zdr_LOOKUP2res)
rpc_nfs2_readlink_task ==
  Task(NFS_PROGRAM, NFS_V2, 5, zdr_READLINK2args, zdr_READLINK2res)
rpc_nfs2_read_task == Task(NFS_PROGRAM, NFS_V2, 6, zdr_READ2args, zdr_READ2res)
rpc_nfs2_write_task ==
  Hinted(4, Task(NFS_PROGRAM, NFS_V2, 8, zdr_WRITE2args, zdr_WRITE2res))
rpc_nfs2_create_task == Task(NFS_PROGRAM, NFS_V2, 9, zdr_CREATE2args, zdr_CREATE2res)
rpc_nfs2_remove_task == Task(NFS_PROGRAM, NFS_V2, 10, zdr_REMOVE2args, zdr_REMOVE2res)
rpc_nfs2_rename_task == Task(NFS_PROGRAM, NFS_V2, 11, zdr_RENAME2args, zdr_RENAME2res)
rpc_nfs2_link_task == Task(NFS_PROGRAM, NFS_V2, 12, zdr_LINK2args, zdr_LINK2res)
rpc_nfs2_symlink_task ==
  Task(NFS_PROGRAM, NFS_V2, 13, zdr_SYMLINK2args, zdr_SYMLINK2res)
rpc_nfs2_mkdir_task == Task(NFS_PROGRAM, NFS_V2, 14, zdr_MKDIR2args, zdr_MKDIR2res)
rpc_nfs2_rmdir_task == Task(NFS_PROGRAM, NFS_V2, 15, zdr_RMDIR2args, zdr_RMDIR2res)
rpc_nfs2_readdir_task ==
  Task(NFS_PROGRAM, NFS_V2, 16, zdr_READDIR2args, zdr_READDIR2res)
rpc_nfs2_statfs_task == Task(NFS_PROGRAM, NFS_V2, 17, zdr_STATFS2args, zdr_STATFS2res)

\* NFSACL (nfs/nfsacl.c)
rpc_nfsacl3_null_task == Task(NFSACL_PROGRAM, NFSACL_V3, 0, zdr_void, zdr_void)
rpc_nfsacl3_getacl_task ==
  Task(NFSACL_PROGRAM, NFSACL_V3, 1, zdr_GETACL3args, zdr_GETACL3res)
rpc_nfsacl3_setacl_task ==
  Task(NFSACL_PROGRAM, NFSACL_V3, 2, zdr_SETACL3args, zdr_SETACL3res)

\* NFS 4 (nfs4/nfs4.c)
rpc_nfs4_null_task == Task(NFS4_PROGRAM, NFS_V4, 0, zdr_void, zdr_void)
\* rpc_nfs4_compound_task2 with an alloc_hint of its caller.
rpc_nfs4_compound_task == Task(NFS4_PROGRAM, NFS_V4, 1, zdr_COMPOUND4args, zdr_COMPOUND4res)
rpc_nfs4_readv_task == ZeroCopy("read", rpc_nfs4_compound_task)
rpc_nfs4_writev_task == ZeroCopy("write", rpc_nfs4_compound_task)

\* MOUNT 3 (mount/mount.c)
rpc_mount3_null_task == Task(MOUNT_PROGRAM, MOUNT_V3, 0, zdr_void, zdr_void)
rpc_mount3_mnt_task == Task(MOUNT_PROGRAM, MOUNT_V3, 1, zdr_dirpath, zdr_mountres3)
rpc_mount3_dump_task == Task(MOUNT_PROGRAM, MOUNT_V3, 2, zdr_void, zdr_mountlist)
rpc_mount3_umnt_task == Task(MOUNT_PROGRAM, MOUNT_V3, 3, zdr_dirpath, zdr_void)
rpc_mount3_umntall_task == Task(MOUNT_PROGRAM, MOUNT_V3, 4, zdr_void, zdr_void)
rpc_mount3_export_task == Task(MOUNT_PROGRAM, MOUNT_V3, 5, zdr_void, zdr_exports)

\* MOUNT 1 (mount/mount.c)
rpc_mount1_null_task == Task(MOUNT_PROGRAM, MOUNT_V1, 0, zdr_void, zdr_void)
rpc_mount1_mnt_task == Task(MOUNT_PROGRAM, MOUNT_V1, 1, zdr_dirpath, zdr_mountres1)
rpc_mount1_dump_task == Task(MOUNT_PROGRAM, MOUNT_V1, 2, zdr_void, zdr_mountlist)
rpc_mount1_umnt_task == Task(MOUNT_PROGRAM, MOUNT_V1, 3, zdr_dirpath, zdr_void)
rpc_mount1_umntall_task == Task(MOUNT_PROGRAM, MOUNT_V1, 4, zdr_void, zdr_void)
rpc_mount1_export_task == Task(MOUNT_PROGRAM, MOUNT_V1, 5, zdr_void, zdr_exports)

\* Port mapper (portmap/portmap.c)
rpc_pmap2_null_task == Task(PMAP_PROGRAM, PMAP_V2, 0, zdr_void, zdr_void)
rpc_pmap2_getport_task == Task(PMAP_PROGRAM, PMAP_V2, 3, zdr_pmap2_mapping, zdr_int)
rpc_pmap2_set_task == Task(PMAP_PROGRAM, PMAP_V2, 1, zdr_pmap2_mapping, zdr_int)
rpc_pmap2_unset_task == Task(PMAP_PROGRAM, PMAP_V2, 2, zdr_pmap2_mapping, zdr_int)
rpc_pmap2_dump_task == Task(PMAP_PROGRAM, PMAP_V2, 4, zdr_void, zdr_pmap2_dump_result)
rpc_pmap2_callit_task ==
  Task(PMAP_PROGRAM, PMAP_V2, 5, zdr_pmap2_call_args, zdr_pmap2_call_result)

\* rpcbind 3 (portmap/portmap.c)
rpc_pmap3_null_task == Task(PMAP_PROGRAM, PMAP_V3, 0, zdr_void, zdr_void)
rpc_pmap3_set_task == Task(PMAP_PROGRAM, PMAP_V3, 1, zdr_pmap3_mapping, zdr_int)
rpc_pmap3_unset_task == Task(PMAP_PROGRAM, PMAP_V3, 2, zdr_pmap3_mapping, zdr_int)
rpc_pmap3_getaddr_task ==
  Task(PMAP_PROGRAM, PMAP_V3, 3, zdr_pmap3_mapping, zdr_pmap3_string_result)
rpc_pmap3_dump_task == Task(PMAP_PROGRAM, PMAP_V3, 4, zdr_void, zdr_pmap3_dump_result)
rpc_pmap3_gettime_task == Task(PMAP_PROGRAM, PMAP_V3, 6, zdr_void, zdr_int)
rpc_pmap3_callit_task ==
  Task(PMAP_PROGRAM, PMAP_V3, 5, zdr_pmap3_call_args, zdr_rpcb_rmtcallres)
rpc_pmap3_uaddr2taddr_task ==
  Task(PMAP_PROGRAM, PMAP_V3, 7, zdr_string, zdr_pmap3_netbuf)
rpc_pmap3_taddr2uaddr_task ==
  Task(PMAP_PROGRAM, PMAP_V3, 8, zdr_pmap3_netbuf, zdr_pmap3_string_result)

\* rpcbind 4 (portmap/portmap.c)
rpc_pmap4_null_task == Task(PMAP_PROGRAM, PMAP_V4, 0, zdr_void, zdr_void)
rpc_pmap4_set_task == Task(PMAP_PROGRAM, PMAP_V4, 1, zdr_pmap4_mapping, zdr_int)
rpc_pmap4_unset_task == Task(PMAP_PROGRAM, PMAP_V4, 2, zdr_pmap4_mapping, zdr_int)
rpc_pmap4_getaddr_task ==
  Task(PMAP_PROGRAM, PMAP_V4, 3, zdr_pmap4_mapping, zdr_pmap4_string_result)
rpc_pmap4_dump_task == Task(PMAP_PROGRAM, PMAP_V4, 4, zdr_void, zdr_pmap4_dump_result)
rpc_pmap4_gettime_task == Task(PMAP_PROGRAM, PMAP_V4, 6, zdr_void, zdr_int)
rpc_pmap4_bcast_task ==
  Task(PMAP_PROGRAM, PMAP_V4, 5, zdr_pmap4_bcast_args, zdr_rpcb_rmtcallres)
rpc_pmap4_uaddr2taddr_task ==
  Task(PMAP_PROGRAM, PMAP_V4, 7, zdr_string, zdr_pmap4_netbuf)
rpc_pmap4_taddr2uaddr_task ==
  Task(PMAP_PROGRAM, PMAP_V4, 8, zdr_pmap4_netbuf, zdr_pmap4_string_result)
rpc_pmap4_getversaddr_task ==
  Task(PMAP_PROGRAM, PMAP_V4, 9, zdr_pmap4_mapping, zdr_pmap4_string_result)
rpc_pmap4_indirect_task ==
  Task(PMAP_PROGRAM, PMAP_V4, 10, zdr_pmap4_indirect_args, zdr_rpcb_rmtcallres)
rpc_pmap4_getstat_task ==
  Task(PMAP_PROGRAM, PMAP_V4, 12, zdr_void, zdr_pmap4_stat_byvers)
rpc_pmap4_getaddrlist_task ==
  Task(PMAP_PROGRAM, PMAP_V4, 11, zdr_pmap4_mapping, zdr_pmap4_entry_list_ptr)

\* NLM (nlm/nlm.c)
rpc_nlm4_null_task == Task(NLM_PROGRAM, NLM_V4, 0, zdr_void, zdr_void)
rpc_nlm4_test_task == Task(NLM_PROGRAM, NLM_V4, 1, zdr_NLM4_TESTargs, zdr_NLM4_TESTres)
rpc_nlm4_lock_task == Task(NLM_PROGRAM, NLM_V4, 2, zdr_NLM4_LOCKargs, zdr_NLM4_LOCKres)
rpc_nlm4_cancel_task ==
  Task(NLM_PROGRAM, NLM_V4, 3, zdr_NLM4_CANCargs, zdr_NLM4_CANCres)
rpc_nlm4_unlock_task ==
  Task(NLM_PROGRAM, NLM_V4, 4, zdr_NLM4_UNLOCKargs, zdr_NLM4_UNLOCKres)
rpc_nlm4_share_task ==
  Task(NLM_PROGRAM, NLM_V4, 20, zdr_NLM4_SHAREargs, zdr_NLM4_SHAREres)
rpc_nlm4_unshare_task ==
  Task(NLM_PROGRAM, NLM_V4, 21, zdr_NLM4_UNSHAREargs, zdr_NLM4_UNSHAREres)

\* NSM (nsm/nsm.c)
rpc_nsm1_null_task == Task(NSM_PROGRAM, NSM_V1, 0, zdr_void, zdr_void)
rpc_nsm1_stat_task == Task(NSM_PROGRAM, NSM_V1, 1, zdr_NSM1_STATargs, zdr_NSM1_STATres)
rpc_nsm1_mon_task == Task(NSM_PROGRAM, NSM_V1, 2, zdr_NSM1_MONargs, zdr_NSM1_MONres)
rpc_nsm1_unmon_task ==
  Task(NSM_PROGRAM, NSM_V1, 3, zdr_NSM1_UNMONargs, zdr_NSM1_UNMONres)
rpc_nsm1_unmonall_task ==
  Task(NSM_PROGRAM, NSM_V1, 4, zdr_NSM1_UNMONALLargs, zdr_NSM1_UNMONALLres)
rpc_nsm1_simucrash_task == Task(NSM_PROGRAM, NSM_V1, 5, zdr_void, zdr_void)
rpc_nsm1_notify_task == Task(NSM_PROGRAM, NSM_V1, 6, zdr_NSM1_NOTIFYargs, zdr_void)

\* RQUOTA 1 (rquota/rquota.c)
rpc_rquota1_null_task == Task(RQUOTA_PROGRAM, RQUOTA_V1, 0, zdr_void, zdr_void)
rpc_rquota1_getquota_task ==
  Task(RQUOTA_PROGRAM, RQUOTA_V1, 1, zdr_GETQUOTA1args, zdr_GETQUOTA1res)
rpc_rquota1_getactivequota_task ==
  Task(RQUOTA_PROGRAM, RQUOTA_V1, 2, zdr_GETQUOTA1args, zdr_GETQUOTA1res)

\* RQUOTA 2 (rquota/rquota.c)
rpc_rquota2_null_task == Task(RQUOTA_PROGRAM, RQUOTA_V2, 0, zdr_void, zdr_void)
rpc_rquota2_getquota_task ==
  Task(RQUOTA_PROGRAM, RQUOTA_V2, 1, zdr_GETQUOTA2args, zdr_GETQUOTA1res)
rpc_rquota2_getactivequota_task ==
  Task(RQUOTA_PROGRAM, RQUOTA_V2, 2, zdr_GETQUOTA2args, zdr_GETQUOTA1res)

\* The stubs that marshal all of their arguments.
PlainTasks == <<
  rpc_nfs3_null_task, rpc_nfs3_getattr_task, rpc_nfs3_pathconf_task,
  rpc_nfs3_lookup_task, rpc_nfs3_access_task, rpc_nfs3_commit_task,
  rpc_nfs3_setattr_task, rpc_nfs3_mkdir_task, rpc_nfs3_rmdir_task,
  rpc_nfs3_create_task, rpc_nfs3_mknod_task, rpc_nfs3_remove_task,
  rpc_nfs3_readdir_task, rpc_nfs3_readdirplus_task, rpc_nfs3_fsstat_task,
  rpc_nfs3_fsinfo_task, rpc_nfs3_readlink_task, rpc_nfs3_symlink_task,
  rpc_nfs3_rename_task, rpc_nfs3_link_task, rpc_nfs2_null_task, rpc_nfs2_getattr_task,
  rpc_nfs2_setattr_task, rpc_nfs2_lookup_task, rpc_nfs2_readlink_task,
  rpc_nfs2_read_task, rpc_nfs2_write_task, rpc_nfs2_create_task, rpc_nfs2_remove_task,
  rpc_nfs2_rename_task, rpc_nfs2_link_task, rpc_nfs2_symlink_task,
  rpc_nfs2_mkdir_task, rpc_nfs2_rmdir_task, rpc_nfs2_readdir_task,
  rpc_nfs2_statfs_task, rpc_nfsacl3_null_task, rpc_nfsacl3_getacl_task,
  rpc_nfsacl3_setacl_task, rpc_nfs4_null_task, rpc_mount3_null_task,
  rpc_mount3_mnt_task, rpc_mount3_dump_task, rpc_mount3_umnt_task,
  rpc_mount3_umntall_task, rpc_mount3_export_task, rpc_mount1_null_task,
  rpc_mount1_mnt_task, rpc_mount1_dump_task, rpc_mount1_umnt_task,
  rpc_mount1_umntall_task, rpc_mount1_export_task, rpc_pmap2_null_task,
  rpc_pmap2_getport_task, rpc_pmap2_set_task, rpc_pmap2_unset_task,
  rpc_pmap2_dump_task, rpc_pmap2_callit_task, rpc_pmap3_null_task, rpc_pmap3_set_task,
  rpc_pmap3_unset_task, rpc_pmap3_getaddr_task, rpc_pmap3_dump_task,
  rpc_pmap3_gettime_task, rpc_pmap3_callit_task, rpc_pmap3_uaddr2taddr_task,
  rpc_pmap3_taddr2uaddr_task, rpc_pmap4_null_task, rpc_pmap4_set_task,
  rpc_pmap4_unset_task, rpc_pmap4_getaddr_task, rpc_pmap4_dump_task,
  rpc_pmap4_gettime_task, rpc_pmap4_bcast_task, rpc_pmap4_uaddr2taddr_task,
  rpc_pmap4_taddr2uaddr_task, rpc_pmap4_getversaddr_task, rpc_pmap4_indirect_task,
  rpc_pmap4_getstat_task, rpc_pmap4_getaddrlist_task, rpc_nlm4_null_task,
  rpc_nlm4_test_task, rpc_nlm4_lock_task, rpc_nlm4_cancel_task, rpc_nlm4_unlock_task,
  rpc_nlm4_share_task, rpc_nlm4_unshare_task, rpc_nsm1_null_task, rpc_nsm1_stat_task,
  rpc_nsm1_mon_task, rpc_nsm1_unmon_task, rpc_nsm1_unmonall_task,
  rpc_nsm1_simucrash_task, rpc_nsm1_notify_task, rpc_rquota1_null_task,
  rpc_rquota1_getquota_task, rpc_rquota1_getactivequota_task, rpc_rquota2_null_task,
  rpc_rquota2_getquota_task, rpc_rquota2_getactivequota_task, rpc_nfs4_compound_task>>

=============================================================================
