-------------------------------- MODULE ZdrNfs --------------------------------
(***************************************************************************)
(* The routines of NFS versions 2 and 3 and NFSACL (nfs/libnfs-raw-nfs.c): *)
(* which routines each of them calls, in order. A struct of one field is   *)
(* described as the field.                                                 *)
(***************************************************************************)
EXTENDS Zdr

\* The cases of the switches.
NFS3_OK == 0
SET_TO_CLIENT_TIME == 2
UNCHECKED == 0
GUARDED == 1
EXCLUSIVE == 2
NF3CHR == 4
NF3BLK == 3
NF3SOCK == 6
NF3FIFO == 7

zdr_cookieverf3 == zdr_opaque(8)
zdr_cookie3 == zdr_uint64_t
zdr_nfs_fh3 == zdr_bytes
zdr_filename3 == zdr_string
zdr_diropargs3 == Struct(<<zdr_nfs_fh3, zdr_filename3>>)
zdr_ftype3 == zdr_enum
zdr_mode3 == zdr_u_int
zdr_uid3 == zdr_u_int
zdr_gid3 == zdr_u_int
zdr_size3 == zdr_uint64_t
zdr_fileid3 == zdr_uint64_t
zdr_specdata3 == Struct(<<zdr_u_int, zdr_u_int>>)
zdr_nfstime3 == Struct(<<zdr_u_int, zdr_u_int>>)
zdr_fattr3 == Struct(<<zdr_ftype3, zdr_mode3, zdr_u_int, zdr_uid3, zdr_gid3, zdr_size3,
    zdr_size3, zdr_specdata3, zdr_uint64_t, zdr_fileid3, zdr_nfstime3, zdr_nfstime3,
    zdr_nfstime3>>)
zdr_post_op_attr == Switch(zdr_bool, 1 :> zdr_fattr3 @@ 0 :> zdr_void, Refuse)
zdr_nfsstat3 == zdr_enum
zdr_stable_how == zdr_enum
zdr_offset3 == zdr_uint64_t
zdr_count3 == zdr_u_int
zdr_wcc_attr == Struct(<<zdr_size3, zdr_nfstime3, zdr_nfstime3>>)
zdr_pre_op_attr == Switch(zdr_bool, 1 :> zdr_wcc_attr @@ 0 :> zdr_void, Refuse)
zdr_wcc_data == Struct(<<zdr_pre_op_attr, zdr_post_op_attr>>)
zdr_WRITE3args == Struct(<<zdr_nfs_fh3, zdr_offset3, zdr_count3, zdr_stable_how,
    zdr_bytes>>)
zdr_writeverf3 == zdr_opaque(8)
zdr_WRITE3resok == Struct(<<zdr_wcc_data, zdr_count3, zdr_stable_how, zdr_writeverf3>>)
zdr_WRITE3resfail == zdr_wcc_data
zdr_WRITE3res == Switch(zdr_nfsstat3, NFS3_OK :> zdr_WRITE3resok, zdr_WRITE3resfail)
zdr_LOOKUP3args == zdr_diropargs3
zdr_LOOKUP3resok == Struct(<<zdr_nfs_fh3, zdr_post_op_attr, zdr_post_op_attr>>)
zdr_LOOKUP3resfail == zdr_post_op_attr
zdr_LOOKUP3res == Switch(zdr_nfsstat3, NFS3_OK :> zdr_LOOKUP3resok, zdr_LOOKUP3resfail)
zdr_COMMIT3args == Struct(<<zdr_nfs_fh3, zdr_offset3, zdr_count3>>)
zdr_COMMIT3resok == Struct(<<zdr_wcc_data, zdr_writeverf3>>)
zdr_COMMIT3resfail == zdr_wcc_data
zdr_COMMIT3res == Switch(zdr_nfsstat3, NFS3_OK :> zdr_COMMIT3resok, zdr_COMMIT3resfail)
zdr_ACCESS3args == Struct(<<zdr_nfs_fh3, zdr_u_int>>)
zdr_ACCESS3resok == Struct(<<zdr_post_op_attr, zdr_u_int>>)
zdr_ACCESS3resfail == zdr_post_op_attr
zdr_ACCESS3res == Switch(zdr_nfsstat3, NFS3_OK :> zdr_ACCESS3resok, zdr_ACCESS3resfail)
zdr_GETATTR3args == zdr_nfs_fh3
zdr_GETATTR3resok == zdr_fattr3
zdr_GETATTR3res == Switch(zdr_nfsstat3, NFS3_OK :> zdr_GETATTR3resok, zdr_void)
zdr_time_how == zdr_enum
zdr_set_mode3 == Switch(zdr_bool, 1 :> zdr_mode3, zdr_void)
zdr_set_uid3 == Switch(zdr_bool, 1 :> zdr_uid3, zdr_void)
zdr_set_gid3 == Switch(zdr_bool, 1 :> zdr_gid3, zdr_void)
zdr_set_size3 == Switch(zdr_bool, 1 :> zdr_size3, zdr_void)
zdr_set_atime == Switch(zdr_time_how, SET_TO_CLIENT_TIME :> zdr_nfstime3, zdr_void)
zdr_set_mtime == Switch(zdr_time_how, SET_TO_CLIENT_TIME :> zdr_nfstime3, zdr_void)
zdr_sattr3 == Struct(<<zdr_set_mode3, zdr_set_uid3, zdr_set_gid3, zdr_set_size3,
    zdr_set_atime, zdr_set_mtime>>)
zdr_createmode3 == zdr_enum
zdr_createverf3 == zdr_opaque(8)
zdr_createhow3 ==
  Switch(zdr_createmode3,
    Cases({UNCHECKED, GUARDED}, zdr_sattr3) @@ EXCLUSIVE :> zdr_createverf3,
    Refuse)
zdr_CREATE3args == Struct(<<zdr_diropargs3, zdr_createhow3>>)
zdr_post_op_fh3 == Switch(zdr_bool, 1 :> zdr_nfs_fh3 @@ 0 :> zdr_void, Refuse)
zdr_CREATE3resok == Struct(<<zdr_post_op_fh3, zdr_post_op_attr, zdr_wcc_data>>)
zdr_CREATE3resfail == zdr_wcc_data
zdr_CREATE3res == Switch(zdr_nfsstat3, NFS3_OK :> zdr_CREATE3resok, zdr_CREATE3resfail)
zdr_REMOVE3args == zdr_diropargs3
zdr_REMOVE3resok == zdr_wcc_data
zdr_REMOVE3resfail == zdr_wcc_data
zdr_REMOVE3res == Switch(zdr_nfsstat3, NFS3_OK :> zdr_REMOVE3resok, zdr_REMOVE3resfail)
zdr_READ3args == Struct(<<zdr_nfs_fh3, zdr_offset3, zdr_count3>>)
zdr_READ3resok == Struct(<<zdr_post_op_attr, zdr_count3, zdr_bool, zdr_bytes>>)
zdr_READ3resfail == zdr_post_op_attr
zdr_READ3res == Switch(zdr_nfsstat3, NFS3_OK :> zdr_READ3resok, zdr_READ3resfail)
zdr_FSINFO3args == zdr_nfs_fh3
zdr_FSINFO3resok == Struct(<<zdr_post_op_attr, zdr_u_int, zdr_u_int, zdr_u_int,
    zdr_u_int, zdr_u_int, zdr_u_int, zdr_u_int, zdr_size3, zdr_nfstime3, zdr_u_int>>)
zdr_FSINFO3resfail == zdr_post_op_attr
zdr_FSINFO3res == Switch(zdr_nfsstat3, NFS3_OK :> zdr_FSINFO3resok, zdr_FSINFO3resfail)
zdr_FSSTAT3args == zdr_nfs_fh3
zdr_FSSTAT3resok == Struct(<<zdr_post_op_attr, zdr_size3, zdr_size3, zdr_size3,
    zdr_size3, zdr_size3, zdr_size3, zdr_u_int>>)
zdr_FSSTAT3resfail == zdr_post_op_attr
zdr_FSSTAT3res == Switch(zdr_nfsstat3, NFS3_OK :> zdr_FSSTAT3resok, zdr_FSSTAT3resfail)
zdr_PATHCONF3args == zdr_nfs_fh3
zdr_PATHCONF3resok == Struct(<<zdr_post_op_attr, zdr_u_int, zdr_u_int, zdr_bool,
    zdr_bool, zdr_bool, zdr_bool>>)
zdr_PATHCONF3resfail == zdr_post_op_attr
zdr_PATHCONF3res ==
  Switch(zdr_nfsstat3,
    NFS3_OK :> zdr_PATHCONF3resok,
    zdr_PATHCONF3resfail)
zdr_nfspath3 == zdr_string
zdr_symlinkdata3 == Struct(<<zdr_sattr3, zdr_nfspath3>>)
zdr_SYMLINK3args == Struct(<<zdr_diropargs3, zdr_symlinkdata3>>)
zdr_SYMLINK3resok == Struct(<<zdr_post_op_fh3, zdr_post_op_attr, zdr_wcc_data>>)
zdr_SYMLINK3resfail == zdr_wcc_data
zdr_SYMLINK3res ==
  Switch(zdr_nfsstat3,
    NFS3_OK :> zdr_SYMLINK3resok,
    zdr_SYMLINK3resfail)
zdr_READLINK3args == zdr_nfs_fh3
zdr_READLINK3resok == Struct(<<zdr_post_op_attr, zdr_nfspath3>>)
zdr_READLINK3resfail == zdr_post_op_attr
zdr_READLINK3res ==
  Switch(zdr_nfsstat3,
    NFS3_OK :> zdr_READLINK3resok,
    zdr_READLINK3resfail)
zdr_devicedata3 == Struct(<<zdr_sattr3, zdr_specdata3>>)
zdr_mknoddata3 ==
  Switch(zdr_ftype3,
    Cases({NF3CHR, NF3BLK}, zdr_devicedata3) @@ Cases({NF3SOCK, NF3FIFO}, zdr_sattr3),
    zdr_void)
zdr_MKNOD3args == Struct(<<zdr_diropargs3, zdr_mknoddata3>>)
zdr_MKNOD3resok == Struct(<<zdr_post_op_fh3, zdr_post_op_attr, zdr_wcc_data>>)
zdr_MKNOD3resfail == zdr_wcc_data
zdr_MKNOD3res == Switch(zdr_nfsstat3, NFS3_OK :> zdr_MKNOD3resok, zdr_MKNOD3resfail)
zdr_MKDIR3args == Struct(<<zdr_diropargs3, zdr_sattr3>>)
zdr_MKDIR3resok == Struct(<<zdr_post_op_fh3, zdr_post_op_attr, zdr_wcc_data>>)
zdr_MKDIR3resfail == zdr_wcc_data
zdr_MKDIR3res == Switch(zdr_nfsstat3, NFS3_OK :> zdr_MKDIR3resok, zdr_MKDIR3resfail)
zdr_RMDIR3args == zdr_diropargs3
zdr_RMDIR3resok == zdr_wcc_data
zdr_RMDIR3resfail == zdr_wcc_data
zdr_RMDIR3res == Switch(zdr_nfsstat3, NFS3_OK :> zdr_RMDIR3resok, zdr_RMDIR3resfail)
zdr_RENAME3args == Struct(<<zdr_diropargs3, zdr_diropargs3>>)
zdr_RENAME3resok == Struct(<<zdr_wcc_data, zdr_wcc_data>>)
zdr_RENAME3resfail == Struct(<<zdr_wcc_data, zdr_wcc_data>>)
zdr_RENAME3res == Switch(zdr_nfsstat3, NFS3_OK :> zdr_RENAME3resok, zdr_RENAME3resfail)
zdr_READDIRPLUS3args == Struct(<<zdr_nfs_fh3, zdr_cookie3, zdr_cookieverf3, zdr_count3,
    zdr_count3>>)
zdr_entryplus3 == Chain(<<zdr_fileid3, zdr_filename3, zdr_cookie3, zdr_post_op_attr,
    zdr_post_op_fh3>>)
zdr_dirlistplus3 == Struct(<<zdr_pointer(zdr_entryplus3), zdr_bool>>)
zdr_READDIRPLUS3resok == Struct(<<zdr_post_op_attr, zdr_cookieverf3, zdr_dirlistplus3>>)
zdr_READDIRPLUS3resfail == zdr_post_op_attr
zdr_READDIRPLUS3res ==
  Switch(zdr_nfsstat3,
    NFS3_OK :> zdr_READDIRPLUS3resok,
    zdr_READDIRPLUS3resfail)
zdr_READDIR3args == Struct(<<zdr_nfs_fh3, zdr_cookie3, zdr_cookieverf3, zdr_count3>>)
zdr_entry3 == Chain(<<zdr_fileid3, zdr_filename3, zdr_cookie3>>)
zdr_dirlist3 == Struct(<<zdr_pointer(zdr_entry3), zdr_bool>>)
zdr_READDIR3resok == Struct(<<zdr_post_op_attr, zdr_cookieverf3, zdr_dirlist3>>)
zdr_READDIR3resfail == zdr_post_op_attr
zdr_READDIR3res ==
  Switch(zdr_nfsstat3,
    NFS3_OK :> zdr_READDIR3resok,
    zdr_READDIR3resfail)
zdr_LINK3args == Struct(<<zdr_nfs_fh3, zdr_diropargs3>>)
zdr_LINK3resok == Struct(<<zdr_post_op_attr, zdr_wcc_data>>)
zdr_LINK3resfail == Struct(<<zdr_post_op_attr, zdr_wcc_data>>)
zdr_LINK3res == Switch(zdr_nfsstat3, NFS3_OK :> zdr_LINK3resok, zdr_LINK3resfail)
zdr_sattrguard3 == Switch(zdr_bool, 1 :> zdr_nfstime3 @@ 0 :> zdr_void, Refuse)
zdr_SETATTR3args == Struct(<<zdr_nfs_fh3, zdr_sattr3, zdr_sattrguard3>>)
zdr_SETATTR3resok == zdr_wcc_data
zdr_SETATTR3resfail == zdr_wcc_data
zdr_SETATTR3res ==
  Switch(zdr_nfsstat3,
    NFS3_OK :> zdr_SETATTR3resok,
    zdr_SETATTR3resfail)
zdr_fhandle2 == zdr_opaque(32)
zdr_ftype2 == zdr_enum
zdr_fattr2 == Struct(<<zdr_ftype2, zdr_u_int, zdr_u_int, zdr_u_int, zdr_u_int,
    zdr_u_int, zdr_u_int, zdr_u_int, zdr_u_int, zdr_u_int, zdr_u_int, zdr_nfstime3,
    zdr_nfstime3, zdr_nfstime3>>)
zdr_sattr2 == Struct(<<zdr_u_int, zdr_u_int, zdr_u_int, zdr_u_int, zdr_nfstime3,
    zdr_nfstime3>>)
zdr_filename2 == zdr_string
zdr_path2 == zdr_string
zdr_nfsdata2 == zdr_bytes
zdr_nfscookie2 == zdr_opaque(4)
zdr_entry2 == Chain(<<zdr_u_int, zdr_filename2, zdr_nfscookie2>>)
zdr_diropargs2 == Struct(<<zdr_fhandle2, zdr_filename2>>)
zdr_GETATTR2args == zdr_fhandle2
zdr_GETATTR2resok == zdr_fattr2
zdr_GETATTR2res == Switch(zdr_nfsstat3, NFS3_OK :> zdr_GETATTR2resok, zdr_void)
zdr_SETATTR2args == Struct(<<zdr_fhandle2, zdr_sattr2>>)
zdr_SETATTR2resok == zdr_fattr2
zdr_SETATTR2res == Switch(zdr_nfsstat3, NFS3_OK :> zdr_SETATTR2resok, zdr_void)
zdr_LOOKUP2args == zdr_diropargs2
zdr_LOOKUP2resok == Struct(<<zdr_fhandle2, zdr_fattr2>>)
zdr_LOOKUP2res == Switch(zdr_nfsstat3, NFS3_OK :> zdr_LOOKUP2resok, zdr_void)
zdr_READLINK2args == zdr_fhandle2
zdr_READLINK2resok == zdr_path2
zdr_READLINK2res == Switch(zdr_nfsstat3, NFS3_OK :> zdr_READLINK2resok, zdr_void)
zdr_READ2args == Struct(<<zdr_fhandle2, zdr_u_int, zdr_u_int, zdr_u_int>>)
zdr_READ2resok == Struct(<<zdr_fattr2, zdr_nfsdata2>>)
zdr_READ2res == Switch(zdr_nfsstat3, NFS3_OK :> zdr_READ2resok, zdr_void)
zdr_WRITE2args == Struct(<<zdr_fhandle2, zdr_u_int, zdr_u_int, zdr_u_int,
    zdr_nfsdata2>>)
zdr_WRITE2resok == zdr_fattr2
zdr_WRITE2res == Switch(zdr_nfsstat3, NFS3_OK :> zdr_WRITE2resok, zdr_void)
zdr_CREATE2args == Struct(<<zdr_diropargs2, zdr_sattr2>>)
zdr_CREATE2resok == Struct(<<zdr_fhandle2, zdr_fattr2>>)
zdr_CREATE2res == Switch(zdr_nfsstat3, NFS3_OK :> zdr_CREATE2resok, zdr_void)
zdr_REMOVE2args == zdr_diropargs2
zdr_REMOVE2res == zdr_nfsstat3
zdr_RENAME2args == Struct(<<zdr_diropargs2, zdr_diropargs2>>)
zdr_RENAME2res == zdr_nfsstat3
zdr_LINK2args == Struct(<<zdr_fhandle2, zdr_diropargs2>>)
zdr_LINK2res == zdr_nfsstat3
zdr_SYMLINK2args == Struct(<<zdr_diropargs2, zdr_path2, zdr_sattr2>>)
zdr_SYMLINK2res == zdr_nfsstat3
zdr_MKDIR2args == Struct(<<zdr_diropargs2, zdr_sattr2>>)
zdr_MKDIR2resok == Struct(<<zdr_fhandle2, zdr_fattr2>>)
zdr_MKDIR2res == Switch(zdr_nfsstat3, NFS3_OK :> zdr_MKDIR2resok, zdr_void)
zdr_RMDIR2args == zdr_diropargs2
zdr_RMDIR2res == zdr_nfsstat3
zdr_READDIR2args == Struct(<<zdr_fhandle2, zdr_nfscookie2, zdr_u_int>>)
zdr_READDIR2resok == Struct(<<zdr_pointer(zdr_entry2), zdr_bool>>)
zdr_READDIR2res == Switch(zdr_nfsstat3, NFS3_OK :> zdr_READDIR2resok, zdr_void)
zdr_STATFS2args == zdr_fhandle2
zdr_STATFS2resok == Struct(<<zdr_u_int, zdr_u_int, zdr_u_int, zdr_u_int, zdr_u_int>>)
zdr_STATFS2res == Switch(zdr_nfsstat3, NFS3_OK :> zdr_STATFS2resok, zdr_void)
zdr_nfsacl_type == zdr_enum
zdr_nfsacl_ace == Struct(<<zdr_nfsacl_type, zdr_u_int, zdr_u_int>>)
zdr_GETACL3args == Struct(<<zdr_nfs_fh3, zdr_u_int>>)
zdr_GETACL3resok == Struct(<<zdr_post_op_attr, zdr_u_int, zdr_u_int,
    zdr_array(zdr_nfsacl_ace), zdr_u_int, zdr_array(zdr_nfsacl_ace)>>)
zdr_GETACL3res == Switch(zdr_nfsstat3, NFS3_OK :> zdr_GETACL3resok, zdr_void)
zdr_SETACL3args == Struct(<<zdr_nfs_fh3, zdr_u_int, zdr_u_int,
    zdr_array(zdr_nfsacl_ace), zdr_u_int, zdr_array(zdr_nfsacl_ace)>>)
zdr_SETACL3resok == zdr_post_op_attr
zdr_SETACL3res == Switch(zdr_nfsstat3, NFS3_OK :> zdr_SETACL3resok, zdr_void)

=============================================================================
