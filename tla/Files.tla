------------------------------- MODULE Files -------------------------------
(***************************************************************************)
(* Per-task open files (struct file on task->files_lh) and the syscalls   *)
(* of kernel/syscall.c that change them, the namespace or file data:     *)
(* open, close, mkdir, lseek, ftruncate, write, read, dup2, and the file  *)
(* side of fork, exit and waitpid.                                         *)
(*                                                                         *)
(* A file is a record [fd, inode, offset]; files[t] is the list in order. *)
(* fd is a uint32_t: it wraps at FdMod = 2^FdBits, with FdBits a constant *)
(* so that the wrap lies within reach.  fileObjects counts the struct     *)
(* file slots file_alloc has handed out and file_free has not taken back. *)
(* lastCall records the task, syscall, path argument and return value of  *)
(* the last syscall, for the properties about what a syscall returns.     *)
(***************************************************************************)
EXTENDS Vfs, TLC

CONSTANTS
    ResolvePaths,      \* the paths the walk is checked on against the reference
    Tasks, InitTask,   \* task slots; init is the first user task
    Paths,             \* path arguments of open and mkdir
    FdArgs,            \* fd arguments of close, lseek and dup2
    Offsets,           \* lseek offsets
    OpenFlagSets,      \* flag arguments of open: subsets of {"O_CREAT", "O_TRUNCATE"}
    FdBits,            \* the width of struct file.fd
    MaxFileObjects,    \* bound on file_allocator's live objects
    NoPath,            \* the path field of a call that takes none
    Lengths,           \* length arguments of read and write
    TruncateSizes,     \* size arguments of ftruncate
    Bytes,             \* the byte values a write stores (non-zero)
    MaxOffset          \* bound: a write may not move an offset past it

FdMod == 2 ^ FdBits

VARIABLES taskState, files, fileObjects, lastCall

vars == <<vfsVars, taskState, files, fileObjects, lastCall>>

Call(t, op, p, r) == lastCall' = [task |-> t, op |-> op, path |-> p, ret |-> r]

\* The index of the file with the given fd in a list, 0 if none: filp_find.
filp_find(l, fd) == SelectInSeq(l, LAMBDA f : f.fd = fd)

filp_insert_point_find_tail(l, fd) == Len(l) + 1

\* filp_insert_point_find: the first file with a larger fd, Len + 1 if none.
filp_insert_point_find(l, fd) ==
    LET k == SelectInSeq(l, LAMBDA f : f.fd > fd) IN IF k = 0 THEN Len(l) + 1 ELSE k

\* The fd open gives a new file: the tail's fd plus one, or 0.
NextFd(l) == IF l = <<>> THEN 0 ELSE (Last(l).fd + 1) % FdMod

\* file_alloc, list_add_tail and the fd assignment of SYSCALL_OPEN.
AddFile(t, i) ==
    /\ files' = [files EXCEPT ![t] = Append(@, [fd |-> NextFd(@), inode |-> i, offset |-> 0])]
    /\ fileObjects' = fileObjects + 1

\* vfs_ftruncate: a ramfs regular file is resized by ramfs_set_size (0);
\* sysfs_set_size, a device and a directory give -1.
vfs_ftruncate(i, size) ==
    IF itype[i] = "REGULAR_FILE" /\ isb[i] = "ramfs"
    THEN [ret |-> 0, ramfsInode |-> [ramfsInode EXCEPT ![i] = ramfs_set_size(@, size)]]
    ELSE [ret |-> -1, ramfsInode |-> ramfsInode]

Init ==
    /\ VfsInit
    /\ taskState = [t \in Tasks |-> IF t = InitTask THEN "Running" ELSE "Free"]
    /\ files = [t \in Tasks |-> <<>>]
    /\ fileObjects = 0
    /\ lastCall = [task |-> InitTask, op |-> "none", path |-> NoPath, ret |-> 0]

Runs(t) == taskState[t] = "Running"

(***************************************************************************)
(* SYSCALL_OPEN.  The file is linked and numbered before O_TRUNCATE is    *)
(* applied, and a failed truncate returns its error with the file left in *)
(* the list.                                                              *)
(***************************************************************************)
Open(t, p, flags) ==
    LET r == vfs_resolve(p) IN
    /\ Runs(t)
    /\ fileObjects < MaxFileObjects
    /\ CASE r.status = "ERR_NOT_A_DIR" ->
              Call(t, "open", p, -1) /\ UNCHANGED <<vfsVars, files, fileObjects>>
         [] r.status = "ERR_DOESNT_EXIST" ->
              Call(t, "open", p, -2) /\ UNCHANGED <<vfsVars, files, fileObjects>>
         [] r.status = "SUCCESS_DOESNT_EXIST" /\ "O_CREAT" \notin flags ->
              Call(t, "open", p, -3) /\ UNCHANGED <<vfsVars, files, fileObjects>>
         [] r.status = "SUCCESS_DOESNT_EXIST" ->
              LET c == vfs_create(r.parent, r.name) IN
              /\ FreeInodes # {}
              /\ SetFs(c.fs)
              /\ IF c.ret = NoInode
                 THEN Call(t, "open", p, -4) /\ UNCHANGED <<files, fileObjects>>
                 ELSE AddFile(t, c.ret) /\ Call(t, "open", p, NextFd(files[t]))
         [] OTHER ->
              LET trunc == itype[r.inode] = "REGULAR_FILE" /\ "O_TRUNCATE" \in flags
                  tr == vfs_ftruncate(r.inode, 0)
              IN
              /\ AddFile(t, r.inode)
              /\ UNCHANGED <<itype, isb, dentries>>
              /\ ramfsInode' = IF trunc THEN tr.ramfsInode ELSE ramfsInode
              /\ Call(t, "open", p, IF trunc /\ tr.ret < 0 THEN tr.ret ELSE NextFd(files[t]))
    /\ UNCHANGED taskState

\* SYSCALL_CLOSE
Close(t, fd) ==
    LET k == filp_find(files[t], fd) IN
    /\ Runs(t)
    /\ IF k = 0
       THEN Call(t, "close", NoPath, -1) /\ UNCHANGED <<files, fileObjects>>
       ELSE /\ files' = [files EXCEPT ![t] = RemoveAt(@, k)]
            /\ fileObjects' = fileObjects - 1
            /\ Call(t, "close", NoPath, 0)
    /\ UNCHANGED <<vfsVars, taskState>>

(***************************************************************************)
(* SYSCALL_MKDIR.  The name is copied to a page that is freed again (not *)
(* modelled); vfs_mkdir never returns NULL, so the syscall returns 0.      *)
(***************************************************************************)
Mkdir(t, p) ==
    LET r == vfs_resolve(p) IN
    /\ Runs(t)
    /\ CASE r.status = "ERR_NOT_A_DIR" -> Call(t, "mkdir", p, -1) /\ UNCHANGED vfsVars
         [] r.status = "ERR_DOESNT_EXIST" -> Call(t, "mkdir", p, -2) /\ UNCHANGED vfsVars
         [] r.status = "SUCCESS_EXISTS" -> Call(t, "mkdir", p, -3) /\ UNCHANGED vfsVars
         [] OTHER -> FreeInodes # {} /\ SetFs(vfs_mkdir(r.parent, r.name).fs) /\ Call(t, "mkdir", p, 0)
    /\ UNCHANGED <<taskState, files, fileObjects>>

\* SYSCALL_LSEEK: only whence SEEK_SET (0) is accepted.
Lseek(t, fd, off, whence) ==
    LET k == filp_find(files[t], fd) IN
    /\ Runs(t)
    /\ IF k = 0 \/ whence # 0
       THEN Call(t, "lseek", NoPath, -1) /\ UNCHANGED files
       ELSE /\ files' = [files EXCEPT ![t][k].offset = off]
            /\ Call(t, "lseek", NoPath, off)
    /\ UNCHANGED <<vfsVars, taskState, fileObjects>>

\* SYSCALL_FTRUNCATE: vfs_ftruncate on the file's inode; the offset stays.
Ftruncate(t, fd, size) ==
    LET k == filp_find(files[t], fd)
        tr == vfs_ftruncate(files[t][k].inode, size)
    IN
    /\ Runs(t)
    /\ IF k = 0
       THEN Call(t, "ftruncate", NoPath, -1) /\ UNCHANGED ramfsInode
       ELSE ramfsInode' = tr.ramfsInode /\ Call(t, "ftruncate", NoPath, tr.ret)
    /\ UNCHANGED <<itype, isb, dentries, taskState, files, fileObjects>>

(***************************************************************************)
(* SYSCALL_WRITE through vfs_write.  A device (tty1: vt_write renders and *)
(* returns length) and a ramfs file advance the offset by what they       *)
(* return; sysfs_write and a directory return -1.  The rendering is not   *)
(* modelled.                                                               *)
(***************************************************************************)
Write(t, fd, len, byte) ==
    LET k == filp_find(files[t], fd)
        f == files[t][k]
        ok == itype[f.inode] = "DEVICE" \/ (itype[f.inode] = "REGULAR_FILE" /\ isb[f.inode] = "ramfs")
        w == ramfs_write(ramfsInode[f.inode], f.offset, len, byte)
    IN
    /\ Runs(t)
    /\ IF k = 0
       THEN Call(t, "write", NoPath, -1) /\ UNCHANGED <<files, ramfsInode>>
       ELSE IF ~ok
       THEN Call(t, "write", NoPath, -1) /\ UNCHANGED <<files, ramfsInode>>
       ELSE /\ f.offset + len <= MaxOffset
            /\ files' = [files EXCEPT ![t][k].offset = @ + len]
            /\ ramfsInode' = IF itype[f.inode] = "DEVICE" THEN ramfsInode
                             ELSE [ramfsInode EXCEPT ![f.inode] = w.inode]
            /\ Call(t, "write", NoPath, len)
    /\ UNCHANGED <<itype, isb, dentries, taskState, fileObjects>>

(***************************************************************************)
(* SYSCALL_READ through vfs_read, on regular files.  ramfs_read advances  *)
(* the offset itself; when its copy overruns, the page fault that ends   *)
(* the memcpy makes the caller a zombie (cpu_exception_handler, vector   *)
(* 14).  sysfs_read renders more text than any modelled length at offset *)
(* 0 and sets the offset to what it copied; at any other offset it       *)
(* returns 0.  A directory gives -1.  A read of tty1 blocks in vt_read on *)
(* keyboard input, which is not modelled, so it is not an action.         *)
(***************************************************************************)
Read(t, fd, len) ==
    LET k == filp_find(files[t], fd)
        f == files[t][k]
        rr == ramfs_read(ramfsInode[f.inode], f.offset, len)
    IN
    /\ Runs(t)
    /\ k # 0 => itype[f.inode] # "DEVICE"
    /\ CASE k = 0 \/ itype[f.inode] = "DIRECTORY" ->
              Call(t, "read", NoPath, -1) /\ UNCHANGED <<files, taskState>>
         [] isb[f.inode] = "sysfs" ->
              /\ files' = [files EXCEPT ![t][k].offset = IF @ > 0 THEN @ ELSE len]
              /\ Call(t, "read", NoPath, IF f.offset > 0 THEN 0 ELSE len)
              /\ UNCHANGED taskState
         [] rr.overrun ->
              /\ taskState' = [taskState EXCEPT ![t] = "Zombie"]
              /\ Call(t, "read", NoPath, -1)
              /\ UNCHANGED files
         [] OTHER ->
              /\ files' = [files EXCEPT ![t][k].offset = @ + rr.ret]
              /\ Call(t, "read", NoPath, rr.ret)
              /\ UNCHANGED taskState
    /\ UNCHANGED <<vfsVars, fileObjects>>

(***************************************************************************)
(* SYSCALL_DUP2.  The file at newfd is unlinked and freed before oldfd's  *)
(* inode and offset are read; when the two are the same file the read is *)
(* of a freed slot, which slab_free leaves intact, so it yields the old  *)
(* values.  The new file goes before the first file with a larger fd.    *)
(***************************************************************************)
DupFileZeroOffset(src, new) == [fd |-> new, inode |-> src.inode, offset |-> 0]

\* new_filp takes newfd and old_filp's inode and offset.
DupFile(src, new) == [fd |-> new, inode |-> src.inode, offset |-> src.offset]

Dup2(t, old, new) ==
    LET ko == filp_find(files[t], old)
        kc == filp_find(files[t], new)
        l1 == IF kc = 0 THEN files[t] ELSE RemoveAt(files[t], kc)
        src == files[t][ko]
    IN
    /\ Runs(t)
    /\ kc # 0 \/ fileObjects < MaxFileObjects
    /\ IF ko = 0
       THEN Call(t, "dup2", NoPath, -1) /\ UNCHANGED <<files, fileObjects>>
       ELSE /\ files' = [files EXCEPT ![t] =
                           InsertAt(l1, filp_insert_point_find(l1, new), DupFile(src, new))]
            /\ fileObjects' = fileObjects + (IF kc = 0 THEN 1 ELSE 0)
            /\ Call(t, "dup2", NoPath, new)
    /\ UNCHANGED <<vfsVars, taskState>>

\* SYSCALL_FORK, file side: the child slot gets a copy of the list.
Fork(p) ==
    LET free == {c \in Tasks : taskState[c] = "Free"} IN
    /\ Runs(p)
    /\ free # {}
    /\ fileObjects + Len(files[p]) <= MaxFileObjects
    /\ LET c == Min(free) IN
       /\ taskState' = [taskState EXCEPT ![c] = "Running"]
       /\ files' = [files EXCEPT ![c] = files[p]]
       /\ fileObjects' = fileObjects + Len(files[p])
       /\ Call(p, "fork", NoPath, c)
    /\ UNCHANGED vfsVars

\* SYSCALL_EXIT (the files stay on the list).
Exit(t) ==
    /\ Runs(t)
    /\ taskState' = [taskState EXCEPT ![t] = "Zombie"]
    /\ Call(t, "exit", NoPath, 0)
    /\ UNCHANGED <<vfsVars, files, fileObjects>>

(***************************************************************************)
(* SYSCALL_WAITPID on a zombie: free_userspace_memory,                     *)
(* free_kernelspace_memory and free_task.  None of them walks files_lh:   *)
(* the struct file objects stay allocated, unreachable once the slot is   *)
(* reused (fork starts the child's list empty).                            *)
(***************************************************************************)
Reap(w, t) ==
    /\ Runs(w)
    /\ w # t
    /\ taskState[t] = "Zombie"
    /\ taskState' = [taskState EXCEPT ![t] = "Free"]
    /\ Call(w, "waitpid", NoPath, t)
    /\ UNCHANGED <<vfsVars, files, fileObjects>>

\* kt-hw-init's loop once every user task has exited.
KernelLoop ==
    /\ \A t \in Tasks : ~Runs(t)
    /\ UNCHANGED vars

Next ==
    \/ \E t \in Tasks :
          \/ \E p \in Paths, flags \in OpenFlagSets : Open(t, p, flags)
          \/ \E fd \in FdArgs : Close(t, fd)
          \/ \E p \in Paths : Mkdir(t, p)
          \/ \E fd \in FdArgs, off \in Offsets, whence \in {0, 1} : Lseek(t, fd, off, whence)
          \/ \E fd \in FdArgs, size \in TruncateSizes : Ftruncate(t, fd, size)
          \/ \E fd \in FdArgs, len \in Lengths, byte \in Bytes : Write(t, fd, len, byte)
          \/ \E fd \in FdArgs, len \in Lengths : Read(t, fd, len)
          \/ \E old, new \in FdArgs : Dup2(t, old, new)
          \/ Fork(t)
          \/ Exit(t)
          \/ \E w \in Tasks : Reap(w, t)
    \/ KernelLoop

Spec == Init /\ [][Next]_vars

-----------------------------------------------------------------------------
(***************************************************************************)
(* Properties.                                                             *)
(***************************************************************************)
OffsetValues == Offsets \cup (0 .. MaxOffset)

FileRec == [fd : 0 .. FdMod - 1, inode : Inodes, offset : OffsetValues]

FilesTypeOK ==
    /\ itype \in [Inodes -> InodeTypes \cup {"NONE", "UNINITIALISED"}]
    /\ isb \in [Inodes -> Superblocks]
    /\ \A i \in Inodes : dentries[i] \in Seq([name : Names, inode : Inodes, mounted : Inodes \cup {NoInode}])
    /\ taskState \in [Tasks -> {"Free", "Running", "Zombie"}]
    /\ \A t \in Tasks : files[t] \in Seq(FileRec)
    /\ fileObjects \in 0 .. MaxFileObjects

\* The list of a live task is sorted by strictly increasing fd (the comment
\* on struct file.files_le, and spec.md's "unique within the task"), across
\* open's tail numbering, dup2's sorted insert and fork's copy.
FdsSortedUnique ==
    \A t \in Tasks : taskState[t] # "Free" =>
        \A i, j \in DOMAIN files[t] : i < j => files[t][i].fd < files[t][j].fd

\* vfs_resolve's pointer walk (slash skipping, the break on a trailing
\* slash, the directory check at the top of the loop, mount points) agrees
\* with a component-wise resolution on every path, in every reachable tree.
ResolveMatchesReference ==
    \A p \in ResolvePaths : vfs_resolve(p) = RefResolve(p)

\* The fd table of a task, as filp_find sees it; a free slot has none.
FdMapOf(l) ==
    [fd \in {l[k].fd : k \in DOMAIN l} |->
        LET f == l[filp_find(l, fd)] IN [inode |-> f.inode, offset |-> f.offset]]

Abs == INSTANCE FdMap WITH
           fdmap <- [t \in Tasks |-> IF taskState[t] = "Free" THEN FdMapOf(<<>>) ELSE FdMapOf(files[t])],
           Fds <- 0 .. FdMod - 1,
           Offsets <- OffsetValues

\* The syscalls implement the fd table of FdMap: every step is an open,
\* close, dup2, lseek, fork copy or reap of that table, or leaves it alone.
FdMapRefined == Abs!ASpec

\* An open that returns an error leaves the caller's files as they were
\* (SYSCALL_OPEN returns the O_TRUNCATE error after linking the file).
OpenErrorKeepsFds ==
    [][lastCall'.op = "open" /\ lastCall'.ret < 0 =>
         files'[lastCall'.task] = files[lastCall'.task]]_vars

\* After mkdir returns 0 its path resolves to an existing inode
\* (vfs_mkdir returns the slot whatever create_dir_inode did).
MkdirSuccessCreates ==
    lastCall.op = "mkdir" /\ lastCall.ret = 0 =>
        vfs_resolve(lastCall.path).status = "SUCCESS_EXISTS"

\* ramfs_read's cluster loop returns exactly the file's bytes from the
\* offset to the end of the read or of the file, for every offset within
\* the file and every length, in every cluster list the syscalls build
\* (writes that grow the file, ftruncate and O_TRUNCATE that shrink it).
RamfsReadMatchesContent ==
    \A i \in Inodes : itype[i] = "REGULAR_FILE" /\ isb[i] = "ramfs" =>
        \A off \in 0 .. ramfsInode[i].size, len \in 0 .. MaxOffset :
            LET rr == ramfs_read(ramfsInode[i], off, len)
            IN /\ ~rr.overrun
               /\ rr.ret = Len(RefRead(ramfsInode[i], off, len))
               /\ rr.data = RefRead(ramfsInode[i], off, len)

\* A read returns to its caller: the task that made the last call, a read,
\* is still running (ramfs_read's memcpy faults when the offset lies past
\* the size inside the last cluster).
ReadReturnsToCaller ==
    lastCall.op = "read" => taskState[lastCall.task] = "Running"

\* The bytes of a ramfs file's clusters past its size are zero, so that a
\* later growth by ramfs_set_size or ramfs_write exposes zeros (spec.md:
\* new clusters are zero-filled, and a hole reads as zero).
RamfsTailZeroed ==
    \A i \in Inodes : itype[i] = "REGULAR_FILE" /\ isb[i] = "ramfs" =>
        \A j \in DOMAIN ramfsInode[i].clusters, b \in 1 .. C :
            ClusterStart(j) + b - 1 >= ramfsInode[i].size => ramfsInode[i].clusters[j][b] = 0

\* Every allocated struct file is on the list of a task that still exists
\* (spec.md: files are destroyed by close or task reaping; free_task).
FileObjectsOwned ==
    fileObjects = MapThenSumSet(LAMBDA t : IF taskState[t] = "Free" THEN 0 ELSE Len(files[t]), Tasks)

=============================================================================
