-------------------------------- MODULE Vfs --------------------------------
(***************************************************************************)
(* The namespace of fs/vfs.c: inodes with a type and a superblock, the    *)
(* ordered dentry list of every directory, mount points, and the path     *)
(* walk of vfs_resolve.                                                    *)
(*                                                                         *)
(* A path is a sequence of tokens: "/" or a name.  Two names are never    *)
(* adjacent, since adjacent characters belong to one name; a name is an  *)
(* atom and strklcmp compares it exactly.  The boot tree holds the        *)
(* entries vfs_init, tty_init and sysfs_init create that the operations   *)
(* of this project tell apart: /dev (ramfs), /dev/tty1 (a device), /sys   *)
(* with the sysfs root mounted on it, and /sys/meminfo (a sysfs file).    *)
(***************************************************************************)
EXTENDS Ramfs, Integers, Sequences, SequencesExt, FiniteSets, FiniteSetsExt

CONSTANTS
    Inodes,        \* inode slots of inode_allocator, the static inodes included
    RootInode,     \* vfs_root_inode
    DevInode,      \* vfs_dev_dir_inode
    SysInode,      \* vfs_sys_dir_inode (ramfs), the mount point of sysfs
    TtyInode,      \* tty1_inode
    SysfsRoot,     \* sysfs_root_inode
    MeminfoInode,  \* sysfs_meminfo_inode
    NoInode,       \* NULL
    UserNames      \* names user programs create

StaticInodes == {RootInode, DevInode, SysInode, TtyInode, SysfsRoot, MeminfoInode}
Names == {"dev", "sys", "tty1", "meminfo"} \cup UserNames
InodeTypes == {"DIRECTORY", "DEVICE", "REGULAR_FILE"}
Superblocks == {"ramfs", "sysfs"}
ResolveStatuses == {"SUCCESS_EXISTS", "SUCCESS_DOESNT_EXIST", "ERR_DOESNT_EXIST", "ERR_NOT_A_DIR"}

ASSUME StaticInodes \subseteq Inodes /\ NoInode \notin Inodes

VARIABLES
    itype,      \* inode->type, "NONE" for a free slot
    isb,        \* inode->superblock
    dentries,   \* inode->dentry_lh: Seq of [name, inode, mounted]
    ramfsInode  \* inode->private of a ramfs regular file: [size, clusters]

vfsVars == <<itype, isb, dentries, ramfsInode>>

Dentry(n, i, m) == [name |-> n, inode |-> i, mounted |-> m]

\* vfs_init, tty_init (mknod of tty1 in /dev) and sysfs_init with its mount.
VfsInit ==
    /\ itype = [i \in Inodes |->
                  CASE i \in {RootInode, DevInode, SysInode, SysfsRoot} -> "DIRECTORY"
                    [] i = TtyInode -> "DEVICE"
                    [] i = MeminfoInode -> "REGULAR_FILE"
                    [] OTHER -> "NONE"]
    /\ isb = [i \in Inodes |-> IF i \in {SysfsRoot, MeminfoInode} THEN "sysfs" ELSE "ramfs"]
    /\ dentries = [i \in Inodes |->
                     CASE i = RootInode -> <<Dentry("dev", DevInode, NoInode),
                                             Dentry("sys", SysInode, SysfsRoot)>>
                       [] i = DevInode -> <<Dentry("tty1", TtyInode, NoInode)>>
                       [] i = SysfsRoot -> <<Dentry("meminfo", MeminfoInode, NoInode)>>
                       [] OTHER -> <<>>]
    /\ ramfsInode = [i \in Inodes |-> RamfsInodeNew]

(***************************************************************************)
(* vfs_resolve.  The result carries status, inode, parent_directory and,  *)
(* for SUCCESS_DOESNT_EXIST, the name of the last fragment.               *)
(***************************************************************************)
Result(s, i, p, n) == [status |-> s, inode |-> i, parent |-> p, name |-> n]

\* while (*buf == '/') buf++;
SkipSlashes(p, i) ==
    LET j == SelectInSubSeq(p, i, Len(p), LAMBDA x : x # "/")
    IN IF j = 0 THEN Len(p) + 1 ELSE j

\* A dentry prefers its mounted inode.
Target(d) == IF d.mounted # NoInode THEN d.mounted ELSE d.inode

RECURSIVE ResolveFromBreakFirst(_, _, _, _)
ResolveFromBreakFirst(p, i, inode, parent) ==
    LET j == SkipSlashes(p, i) IN
    IF j > Len(p) THEN Result("SUCCESS_EXISTS", inode, parent, "")
    ELSE IF itype[inode] # "DIRECTORY" THEN Result("ERR_NOT_A_DIR", NoInode, NoInode, "")
    ELSE LET k == SelectInSeq(dentries[inode], LAMBDA d : d.name = p[j])
         IN IF k = 0
            THEN IF j = Len(p)
                 THEN Result("SUCCESS_DOESNT_EXIST", NoInode, inode, p[j])
                 ELSE Result("ERR_DOESNT_EXIST", NoInode, NoInode, "")
            ELSE ResolveFromBreakFirst(p, j + 1, Target(dentries[inode][k]), inode)

\* One pass of the while (*buf != 0) loop per call: the directory check, the
\* slash skip, the break on an empty fragment, the dentry search.
RECURSIVE ResolveFrom(_, _, _, _)
ResolveFrom(p, i, inode, parent) ==
    IF i > Len(p) THEN Result("SUCCESS_EXISTS", inode, parent, "")
    ELSE IF itype[inode] # "DIRECTORY" THEN Result("ERR_NOT_A_DIR", NoInode, NoInode, "")
    ELSE LET j == SkipSlashes(p, i)
         IN IF j > Len(p) THEN Result("SUCCESS_EXISTS", inode, parent, "")
            ELSE LET k == SelectInSeq(dentries[inode], LAMBDA d : d.name = p[j])
                 IN IF k = 0
                    THEN IF j = Len(p)
                         THEN Result("SUCCESS_DOESNT_EXIST", NoInode, inode, p[j])
                         ELSE Result("ERR_DOESNT_EXIST", NoInode, NoInode, "")
                    ELSE ResolveFrom(p, j + 1, Target(dentries[inode][k]), inode)

vfs_resolve(p) == ResolveFrom(p, SkipSlashes(p, 1), RootInode, RootInode)

(***************************************************************************)
(* The creation operations.  vfs_mkdir and vfs_create take a free slot    *)
(* and call the parent's backend; ramfs links a new dentry, sysfs refuses. *)
(* vfs_mkdir ignores the backend's result and returns the slot either way; *)
(* vfs_create frees it and returns NULL.  Each returns the new state and  *)
(* the inode it returned in a record.                                     *)
(***************************************************************************)
FreeInodes == {i \in Inodes : itype[i] = "NONE"}
NewInode == CHOOSE i \in FreeInodes : TRUE

RamfsCreateNoInode(parent, name, i, type) ==
    [itype |-> [itype EXCEPT ![i] = type],
     isb |-> [isb EXCEPT ![i] = isb[parent]],
     dentries |-> [dentries EXCEPT ![parent] = Append(@, Dentry(name, NoInode, NoInode))],
     ramfsInode |-> ramfsInode]

\* ramfs_create_dir_inode / ramfs_create_file_inode: set the type, inherit
\* the superblock and append the dentry to the parent; a file also gets a
\* fresh ramfs_inode with an empty cluster list.
RamfsCreate(parent, name, i, type) ==
    [itype |-> [itype EXCEPT ![i] = type],
     isb |-> [isb EXCEPT ![i] = isb[parent]],
     dentries |-> [dentries EXCEPT ![parent] = Append(@, Dentry(name, i, NoInode))],
     ramfsInode |-> IF type = "REGULAR_FILE" THEN [ramfsInode EXCEPT ![i] = RamfsInodeNew] ELSE ramfsInode]

\* The slot of a failed sysfs creation is allocated but never initialised.
Leaked(i) == [itype |-> [itype EXCEPT ![i] = "UNINITIALISED"], isb |-> isb, dentries |-> dentries,
              ramfsInode |-> ramfsInode]

vfs_mkdir(parent, name) ==
    LET i == NewInode
    IN [fs |-> IF isb[parent] = "ramfs" THEN RamfsCreate(parent, name, i, "DIRECTORY")
                                         ELSE Leaked(i),
        ret |-> i]

vfs_create(parent, name) ==
    LET i == NewInode
    IN IF isb[parent] = "ramfs"
       THEN [fs |-> RamfsCreate(parent, name, i, "REGULAR_FILE"), ret |-> i]
       ELSE [fs |-> [itype |-> itype, isb |-> isb, dentries |-> dentries, ramfsInode |-> ramfsInode],
             ret |-> NoInode]

SetFs(r) == /\ itype' = r.itype
            /\ isb' = r.isb
            /\ dentries' = r.dentries
            /\ ramfsInode' = r.ramfsInode

(***************************************************************************)
(* The reference resolution the walk is checked against: a fold over the  *)
(* path's components.  A component that is not found is creatable only   *)
(* when it is the last and no slash follows it; a trailing slash after an *)
(* existing non-directory is an error.                                    *)
(***************************************************************************)
Components(p) == SelectSeq(p, LAMBDA x : x # "/")
TrailingSlash(p) == Len(p) > 0 /\ p[Len(p)] = "/"

RefResolve(p) ==
    LET c == Components(p)
        Step(acc, k) ==
            IF acc.status # "SUCCESS_EXISTS" THEN acc
            ELSE IF itype[acc.inode] # "DIRECTORY" THEN Result("ERR_NOT_A_DIR", NoInode, NoInode, "")
            ELSE LET hits == {d \in ToSet(dentries[acc.inode]) : d.name = c[k]}
                 IN IF hits = {}
                    THEN IF k = Len(c) /\ ~TrailingSlash(p)
                         THEN Result("SUCCESS_DOESNT_EXIST", NoInode, acc.inode, c[k])
                         ELSE Result("ERR_DOESNT_EXIST", NoInode, NoInode, "")
                    ELSE Result("SUCCESS_EXISTS",
                                Target(dentries[acc.inode][SelectInSeq(dentries[acc.inode], LAMBDA d : d.name = c[k])]),
                                acc.inode, "")
        walked == FoldLeft(Step, Result("SUCCESS_EXISTS", RootInode, RootInode, ""), [k \in 1 .. Len(c) |-> k])
    IN IF walked.status = "SUCCESS_EXISTS" /\ TrailingSlash(p) /\ Len(c) > 0
          /\ itype[walked.inode] # "DIRECTORY"
       THEN Result("ERR_NOT_A_DIR", NoInode, NoInode, "")
       ELSE walked

=============================================================================
