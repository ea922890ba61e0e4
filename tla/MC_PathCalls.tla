---------------------------- MODULE MC_PathCalls ----------------------------
(* PathCalls on the host tree of HostTree, with the lookup limits scaled as *)
(* in MC_PathGet.  The requests cover each open mode, each flag that adds *)
(* a needed right, O_CREAT with and without O_EXCL and O_DIRECTORY; the   *)
(* directory either passes on every right used here or only reading ones. *)
(* The rights are those of the cloudabi headers, cut down to the rights   *)
(* the requests name.                                                     *)
EXTENDS PathCalls, HostTree

Used == {"FD_READ", "FD_WRITE", "FD_SEEK", "FD_SYNC", "FD_DATASYNC",
         "FILE_STAT_FPUT_SIZE", "FILE_OPEN", "FILE_CREATE_FILE", "FILE_READDIR"}

MC_Calls == {"open", "create", "unlink", "symlink", "readlink", "stat_get",
             "stat_put"}
CallRights == {"FILE_CREATE_DIRECTORY", "FILE_UNLINK", "FILE_SYMLINK",
               "FILE_READLINK", "FILE_STAT_GET", "FILE_STAT_PUT_TIMES"}

MC_Inputs == LookupInputs \cup {<<"x">>, <<"pipe">>, <<"sock">>, <<"sub", "/">>}

Rq(b, i, f, o) == [base |-> b, inh |-> i, flags |-> f, oflags |-> o]
MC_Requests ==
    { Rq({"FD_READ", "FD_SEEK"}, {}, {}, {}),
      Rq({"FD_READ", "FD_WRITE"}, {}, {}, {"CREAT"}),
      Rq({"FILE_STAT_FPUT_SIZE"}, {}, {"APPEND"}, {"TRUNC"}),
      Rq({"FD_READ"}, {}, {}, {"TRUNC"}),
      Rq({"FILE_READDIR", "FILE_OPEN"}, {"FD_READ"}, {}, {"DIRECTORY"}),
      Rq({"FD_WRITE"}, {}, {"DSYNC", "RSYNC"}, {"CREAT", "EXCL"}),
      Rq({"FD_WRITE"}, {}, {"APPEND"}, {}),
      Rq({"FD_READ"}, {}, {"SYNC"}, {"CREAT"}) }

MC_DirRights ==
    { [base |-> {"FILE_OPEN", "FILE_CREATE_FILE"} \cup CallRights, inh |-> Used],
      [base |-> {"FILE_OPEN", "FILE_STAT_GET", "FILE_READLINK"},
       inh |-> {"FD_READ", "FD_SEEK", "FD_SYNC", "FILE_OPEN", "FILE_READDIR"}] }

(* RIGHTS_REGULAR_FILE_*, RIGHTS_DIRECTORY_* (inheriting: directory and    *)
(* regular-file base), RIGHTS_SOCKET_* (inheriting: all), RIGHTS_TTY_*,    *)
(* and RIGHTS_ALL for block and character devices.                        *)
RegBase == {"FD_READ", "FD_WRITE", "FD_SEEK", "FD_SYNC", "FD_DATASYNC",
            "FILE_STAT_FPUT_SIZE"}
DirBase == {"FD_SYNC", "FILE_OPEN", "FILE_CREATE_FILE", "FILE_READDIR"}
MC_MaxBase == [c \in {"REGULAR_FILE", "DIRECTORY", "SOCKET", "TTY",
                      "BLOCK_DEVICE", "CHARACTER_DEVICE"} |->
                 CASE c = "REGULAR_FILE" -> RegBase
                   [] c = "DIRECTORY" -> DirBase
                   [] c \in {"SOCKET", "TTY"} -> {"FD_READ", "FD_WRITE"}
                   [] OTHER -> Used]
MC_MaxInh == [c \in DOMAIN MC_MaxBase |->
                CASE c = "REGULAR_FILE" -> {}
                  [] c = "DIRECTORY" -> DirBase \cup RegBase
                  [] c = "TTY" -> {}
                  [] OTHER -> Used]
=============================================================================
