------------------------------ MODULE MCFiles ------------------------------
(* Two task slots, the boot tree plus two free inode slots, one user name *)
(* "a", and path arguments that reach every resolve outcome: a new name   *)
(* in ramfs (/a, /dev/a, /a/a), a new name in sysfs (/sys/a), an existing *)
(* sysfs file (/sys/meminfo), a device (/dev/tty1) and a trailing slash   *)
(* after a device (/dev/tty1/).                                           *)
EXTENDS Files

MCPaths == {<<"a">>, <<"/", "a", "/", "a">>, <<"dev", "/", "a">>, <<"sys", "/", "a">>,
            <<"sys", "/", "meminfo">>, <<"dev", "/", "tty1", "/">>}

\* Every token sequence of length at most 4 with no two names adjacent.
\* The fd-table run: a new ramfs file, a sysfs file and a device.
MCFdPaths == {<<"a">>, <<"a", "/", "a">>, <<"sys", "/", "meminfo">>, <<"dev", "/", "tty1">>}

\* The file-data run: a new ramfs file, the sysfs file and the device.
MCDataPaths == {<<"a">>, <<"sys", "/", "meminfo">>, <<"dev", "/", "tty1">>}

MCResolvePaths ==
    {p \in BoundedSeq(Names \cup {"/"}, 4) :
        \A i \in 1 .. Len(p) - 1 : p[i] = "/" \/ p[i + 1] = "/"}

\* lastCall only feeds the properties about return values; the runs that do
\* not check them identify states that differ in it alone.
MCView == <<vfsVars, taskState, files, fileObjects>>

MCFlagSets == {{}, {"O_CREAT"}, {"O_TRUNCATE"}}

=============================================================================
