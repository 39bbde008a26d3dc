------------------------------- MODULE Exfat -------------------------------
(***************************************************************************)
(* An exFAT volume as the VFS uses it (fs/exfat.c): exfat_mount, the root *)
(* directory loaded by exfat_lookup (exfat_load_dir_inode), a regular     *)
(* file of it opened and loaded (exfat_load_file_inode, walking the FAT), *)
(* and exfat_read and exfat_write through the open file, whose offset     *)
(* lseek moves.                                                           *)
(*                                                                         *)
(* The volume's file bytes are abstracted to their device offsets: a      *)
(* transfer is the sequence of device offsets it copies, so "the right    *)
(* data" is "the right offsets".  A directory entry is abstracted to its  *)
(* type and the fields exfat.c reads; a name character to "c".            *)
(* nvmepart_read and nvmepart_write clamp only at the partition's end,    *)
(* which the model's volume never reaches, and nvme_read and nvme_write   *)
(* return the full count.                                                 *)
(***************************************************************************)
EXTENDS Integers, Sequences, SequencesExt, FiniteSets

CONSTANTS
    PAGE,                  \* 4096: the stride and transfer bound of exfat.c
    ENTRIES_PER_PAGE,      \* 4096 / 0x20: the entries of one directory read
    DENTRY_MAX_NAME_LENGTH,\* 63 (fs/vfs.h)
    NAME_CHARS_PER_ENTRY,  \* 15: the characters of a 0xC1 entry
    BytesPerSectorExp,     \* bytes_per_sector_exponent of the boot sector
    SectorsPerClusterExp,  \* sectors_per_cluster_exponent
    ClusterHeapOffset,     \* cluster_heap_offset, in sectors
    Clusters,              \* the cluster numbers of the heap (from 2)
    RootCluster,           \* first_cluster_of_root_directory
    DirImages,             \* contents of the heap's clusters as directory pages
    Lengths,               \* lengths of read and write calls
    MaxOffset,             \* offsets lseek may set, and the bound on offsets
    MaxFaults              \* bound on the tasks killed while loading the root

\* FAT entry values other than a next cluster.  exfat.c compares the
\* uint32_t entry with 0xFFFFFFFF and 0xFFFFFFF7; the model writes them as
\* the int32_t of the same bits.
FAT_FREE == 0
FAT_RESERVED == 1
FAT_BAD == -9
FAT_EOC == -1
FatValues == Clusters \cup {FAT_FREE, FAT_RESERVED, FAT_BAD, FAT_EOC}

\* The directory entries by their first byte: 0x85 (file, with the
\* directory bit of its attributes), 0xC0 (stream extension: first cluster
\* and length), 0xC1 (file name: chars is the number of its characters
\* before the NUL padding), 0x00 (end of directory), and the entries the
\* loop skips (0x81, 0x82, 0x83 and unknown ones).
FileEntry(isdir) == [type |-> "file", directory |-> isdir]
StreamEntry(c, len) == [type |-> "stream", start |-> c, length |-> len]
NameEntry(k) == [type |-> "name", chars |-> k]
OtherEntry == [type |-> "other"]
EndEntry == [type |-> "end"]

NUL == "NUL"

ASSUME
    /\ PAGE \in Nat \ {0}
    /\ {BytesPerSectorExp, SectorsPerClusterExp, ClusterHeapOffset, MaxOffset, MaxFaults} \subseteq Nat
    /\ Clusters \subseteq Nat \ {0, 1}
    /\ RootCluster \in Clusters
    /\ Lengths \subseteq Nat
    /\ \A img \in DirImages : DOMAIN img = Clusters /\ \A c \in Clusters : Len(img[c]) = ENTRIES_PER_PAGE

\* The bytes of a cluster on the volume.
ClusterBytes == 2 ^ (BytesPerSectorExp + SectorsPerClusterExp)

\* exfat_start_lba of a cluster: cluster_heap_offset + (1 << spc) * (n - 2).
ClusterLba(n) == ClusterHeapOffset + 2 ^ SectorsPerClusterExp * (n - 2)

\* The cluster index of an lba: ((lba - cluster_heap_offset) >> spc) + 2.
ClusterIndex(lba) == (lba - ClusterHeapOffset) \div 2 ^ SectorsPerClusterExp + 2

\* device_offset of a cluster: its lba << bytes_per_sector_exponent.
DeviceOffset(n) == ClusterLba(n) * 2 ^ BytesPerSectorExp

\* The entries that end a walk of the FAT.
ChainEnd == {FAT_FREE, FAT_RESERVED, FAT_BAD, FAT_EOC}

VARIABLES
    fat,              \* the FAT of the volume
    dir,              \* the heap's clusters read as directory pages
    mounted,          \* exfat_mount has set the mount point's mounted_inode
    root_load_needed, \* the root's exfat_inode->load_needed
    dentries,         \* the root's dentry_lh: [directory, lba, file_length,
                      \*   name, load_needed, clusters] per dentry
    faults,           \* tasks killed by a page fault in exfat_load_dir_inode
    stopped,          \* the kernel is stuck in exfat_load_dir_inode
    filp,             \* the open file: [ino (a dentry, 0 for none), offset]
    lastIo            \* ghost: the last transfer: [op, offset, length, ret, addrs]

vars == <<fat, dir, mounted, root_load_needed, dentries, faults, stopped, filp, lastIo>>

NoIo == [op |-> "none", offset |-> 0, length |-> 0, ret |-> 0, addrs |-> <<>>]

\* The clusters of a chain from n, at most k of them, up to the first
\* entry that does not name a next cluster.
RECURSIVE Walk(_, _)
Walk(n, k) ==
    IF k = 0 THEN <<>>
    ELSE <<n>> \o (IF fat[n] \in ChainEnd THEN <<>> ELSE Walk(fat[n], k - 1))

\* The entries of the root directory along its chain, by the exFAT layout.
RootEntries == FlattenSeq([i \in 1 .. Len(Walk(RootCluster, Cardinality(Clusters))) |->
                              dir[Walk(RootCluster, Cardinality(Clusters))[i]]])

(***************************************************************************)
(* The volume is any FAT over the heap and any of the directory images    *)
(* whose root directory is well formed in one respect: past its first     *)
(* end-of-directory entry every entry is one (exFAT requires it).  The    *)
(* mount point exists and the volume is not mounted yet.                  *)
(***************************************************************************)
Init ==
    /\ fat \in [Clusters -> FatValues]
    /\ dir \in DirImages
    /\ \A i, j \in DOMAIN RootEntries :
           i < j /\ RootEntries[i].type = "end" => RootEntries[j].type = "end"
    /\ mounted = FALSE
    /\ root_load_needed = TRUE
    /\ dentries = <<>>
    /\ faults = 0
    /\ stopped = FALSE
    /\ filp = [ino |-> 0, offset |-> 0]
    /\ lastIo = NoIo

\* exfat_mount of the partition: it checks the device type and the "EXFAT"
\* signature (-10, -11), reads the boot sector's fields and hangs a root
\* inode, to be loaded, on the mount point.
exfat_mount ==
    /\ ~mounted
    /\ mounted' = TRUE
    /\ UNCHANGED <<fat, dir, root_load_needed, dentries, faults, stopped, filp, lastIo>>

\* The dentry and inodes a 0x85 entry allocates; slab memory of a new page
\* is zeroed, so exfat_start_lba is 0 until a 0xC0 entry sets it.
NewDentry(isdir) ==
    [directory |-> isdir, lba |-> 0, file_length |-> 0,
     name |-> [j \in 1 .. DENTRY_MAX_NAME_LENGTH + 1 |-> NUL],
     load_needed |-> TRUE, clusters |-> <<>>]

\* The characters a 0xC1 entry copies at file_name_index: up to 15, none
\* past name[DENTRY_MAX_NAME_LENGTH].
NameCopied(ix) ==
    IF DENTRY_MAX_NAME_LENGTH + 1 - ix < NAME_CHARS_PER_ENTRY
    THEN DENTRY_MAX_NAME_LENGTH + 1 - ix ELSE NAME_CHARS_PER_ENTRY

\* Mutant: the 0xC0 entry sets file_length whatever the inode's type.
ParseEntryLengthAlways(st, e) ==
    CASE st.fault -> st
      [] e.type = "file" ->
            [st EXCEPT !.dentries = Append(@, NewDentry(e.directory)),
                       !.cur = Len(st.dentries) + 1, !.name_index = 0]
      [] e.type = "stream" /\ st.cur = 0 -> [st EXCEPT !.fault = TRUE]
      [] e.type = "stream" ->
            [st EXCEPT !.dentries[st.cur].lba = ClusterLba(e.start),
                       !.dentries[st.cur].file_length = e.length]
      [] e.type = "name" /\ st.cur # 0 ->
            LET w == NameCopied(st.name_index) IN
            [st EXCEPT !.dentries[st.cur].name =
                          [j \in DOMAIN @ |-> IF j - 1 - st.name_index \in 0 .. w - 1
                                              THEN IF j - 1 - st.name_index < e.chars THEN "c" ELSE NUL
                                              ELSE @[j]],
                       !.name_index = @ + w]
      [] OTHER -> st

(***************************************************************************)
(* One entry of the inner loop of exfat_load_dir_inode.  A 0x85 entry     *)
(* appends a new dentry and makes it the current one; a 0xC0 entry sets  *)
(* the current inode's exfat_start_lba and, for a regular file, its       *)
(* file_length; with no current dentry it dereferences NULL, and the page *)
(* fault kills the task (cpu_exception_handler).  A 0xC1 entry copies     *)
(* its characters into the name, from file_name_index, and is skipped     *)
(* with no current dentry.  The others are skipped.                       *)
(***************************************************************************)
ParseEntry(st, e) ==
    CASE st.fault -> st
      [] e.type = "file" ->
            [st EXCEPT !.dentries = Append(@, NewDentry(e.directory)),
                       !.cur = Len(st.dentries) + 1, !.name_index = 0]
      [] e.type = "stream" /\ st.cur = 0 -> [st EXCEPT !.fault = TRUE]
      [] e.type = "stream" ->
            [st EXCEPT !.dentries[st.cur].lba = ClusterLba(e.start),
                       !.dentries[st.cur].file_length =
                          IF st.dentries[st.cur].directory THEN @ ELSE e.length]
      [] e.type = "name" /\ st.cur # 0 ->
            LET w == NameCopied(st.name_index) IN
            [st EXCEPT !.dentries[st.cur].name =
                          [j \in DOMAIN @ |-> IF j - 1 - st.name_index \in 0 .. w - 1
                                              THEN IF j - 1 - st.name_index < e.chars THEN "c" ELSE NUL
                                              ELSE @[j]],
                       !.name_index = @ + w]
      [] OTHER -> st

\* The entries of one page the inner loop looks at: the first one always,
\* then each one up to the first 0x00 entry.
PageEntries(p) ==
    LET ends == {k \in 2 .. Len(p) : p[k].type = "end"}
    IN IF ends = {} THEN p ELSE SubSeq(p, 1, Min(ends) - 1)

(***************************************************************************)
(* The outer loop of exfat_load_dir_inode: parse the page at the current  *)
(* cluster, then read its FAT entry and stop at a free, reserved, bad or  *)
(* end-of-chain entry.  A chain that comes back to a cluster it has read  *)
(* makes the loop run for ever (hang).                                    *)
(***************************************************************************)
RECURSIVE LoadDirFrom(_, _, _)
LoadDirFrom(n, st, seen) ==
    LET st2 == FoldLeft(ParseEntry, st, PageEntries(dir[n])) IN
    IF st2.fault \/ fat[n] \in ChainEnd THEN st2
    ELSE IF fat[n] \in seen THEN [st2 EXCEPT !.hang = TRUE]
    ELSE LoadDirFrom(fat[n], st2, seen \cup {fat[n]})

\* exfat_load_dir_inode of the root: file_dentry starts NULL, and the new
\* dentries go to the tail of the root's list.
exfat_load_dir_inode ==
    LoadDirFrom(RootCluster,
                [dentries |-> dentries, cur |-> 0, name_index |-> 0,
                 fault |-> FALSE, hang |-> FALSE],
                {RootCluster})

\* A path through the mount point: vfs_resolve calls exfat_lookup on the
\* root, which loads it once.
LookupRoot ==
    LET r == exfat_load_dir_inode IN
    /\ mounted /\ root_load_needed /\ ~stopped
    /\ ~r.fault /\ ~r.hang
    /\ dentries' = r.dentries
    /\ root_load_needed' = FALSE
    /\ UNCHANGED <<fat, dir, mounted, faults, stopped, filp, lastIo>>

\* The load faults: the task dies with the dentries appended so far on the
\* list and load_needed still set, so the next path through the mount
\* point loads the directory again.
LookupRootFault ==
    LET r == exfat_load_dir_inode IN
    /\ mounted /\ root_load_needed /\ ~stopped
    /\ r.fault
    /\ faults < MaxFaults
    /\ dentries' = r.dentries
    /\ faults' = faults + 1
    /\ UNCHANGED <<fat, dir, mounted, root_load_needed, stopped, filp, lastIo>>

\* The load never returns: the syscall runs with interrupts off, so the
\* whole kernel stops (until the dentry allocations exhaust memory and
\* kpage_alloc panics).
LookupRootHang ==
    LET r == exfat_load_dir_inode IN
    /\ mounted /\ root_load_needed /\ ~stopped
    /\ r.hang
    /\ stopped' = TRUE
    /\ UNCHANGED <<fat, dir, mounted, root_load_needed, dentries, faults, filp, lastIo>>

\* Mutant: the loop runs while byte_offset <= file_length.
RECURSIVE LoadFromPastEnd(_, _, _, _)
LoadFromPastEnd(lba, byte_offset, flen, acc) ==
    IF byte_offset > flen THEN acc
    ELSE LET acc2 == Append(acc, [byte_offset |-> byte_offset, device_offset |-> lba * 2 ^ BytesPerSectorExp])
             n == ClusterIndex(lba)
         IN IF fat[n] \in ChainEnd THEN acc2
            ELSE LoadFromPastEnd(ClusterLba(fat[n]), byte_offset + PAGE, flen, acc2)

(***************************************************************************)
(* The loop of exfat_load_file_inode.  For each PAGE-sized step below     *)
(* file_length it appends a cluster at the current lba, then reads the    *)
(* FAT entry of that lba's cluster and stops at a free, reserved, bad or *)
(* end-of-chain entry.                                                    *)
(***************************************************************************)
RECURSIVE LoadFrom(_, _, _, _)
LoadFrom(lba, byte_offset, flen, acc) ==
    IF byte_offset >= flen THEN acc
    ELSE LET acc2 == Append(acc, [byte_offset |-> byte_offset, device_offset |-> lba * 2 ^ BytesPerSectorExp])
             n == ClusterIndex(lba)
         IN IF fat[n] \in ChainEnd THEN acc2
            ELSE LoadFrom(ClusterLba(fat[n]), byte_offset + PAGE, flen, acc2)

exfat_load_file_inode(d) == LoadFrom(d.lba, 0, d.file_length, <<>>)

(***************************************************************************)
(* SYSCALL_OPEN of a regular file of the root: vfs_resolve finds its     *)
(* dentry and calls exfat_lookup on its inode, which loads the cluster    *)
(* list once; the new file is at offset 0.                                *)
(***************************************************************************)
Open(i) ==
    /\ ~root_load_needed /\ ~stopped
    /\ ~dentries[i].directory
    /\ dentries' = IF dentries[i].load_needed
                   THEN [dentries EXCEPT ![i].clusters = exfat_load_file_inode(dentries[i]),
                                         ![i].load_needed = FALSE]
                   ELSE dentries
    /\ filp' = [ino |-> i, offset |-> 0]
    /\ lastIo' = NoIo
    /\ UNCHANGED <<fat, dir, mounted, root_load_needed, faults, stopped>>

(***************************************************************************)
(* One pass of the cluster loop of exfat_read and exfat_write.  A cluster *)
(* that starts after the offset is skipped (continue); otherwise the      *)
(* transfer starts page_offset = (offset - byte_offset) % PAGE into it,   *)
(* and is clamped to the rest of the request, the rest of the page and    *)
(* file_length - offset.  That difference is a size_t: past the end of    *)
(* the file it wraps and clamps nothing.  A transfer of 0 bytes ends the  *)
(* loop (goto finalize).                                                  *)
(***************************************************************************)
\* Mutants: the transfer not clamped to the rest of the page, or to the
\* rest of the request.
TransferStepNoPageClamp(len, flen, st, cl) ==
        IF st.stop \/ st.off < cl.byte_offset THEN st
        ELSE LET po == (st.off - cl.byte_offset) % PAGE
                 n1 == len - st.total
                 n == IF st.off <= flen /\ flen - st.off < n1 THEN flen - st.off ELSE n1
             IN IF n = 0 THEN [st EXCEPT !.stop = TRUE]
                ELSE [st EXCEPT !.total = @ + n, !.off = @ + n,
                                !.addrs = @ \o [i \in 1 .. n |-> cl.device_offset + po + i - 1]]

TransferStepNoLengthClamp(len, flen, st, cl) ==
        IF st.stop \/ st.off < cl.byte_offset THEN st
        ELSE LET po == (st.off - cl.byte_offset) % PAGE
                 n1 == PAGE - po
                 n == IF st.off <= flen /\ flen - st.off < n1 THEN flen - st.off ELSE n1
             IN IF n = 0 THEN [st EXCEPT !.stop = TRUE]
                ELSE [st EXCEPT !.total = @ + n, !.off = @ + n,
                                !.addrs = @ \o [i \in 1 .. n |-> cl.device_offset + po + i - 1]]

TransferStep(len, flen, st, cl) ==
        IF st.stop \/ st.off < cl.byte_offset THEN st
        ELSE LET po == (st.off - cl.byte_offset) % PAGE
                 n1 == IF len - st.total < PAGE - po THEN len - st.total ELSE PAGE - po
                 n == IF st.off <= flen /\ flen - st.off < n1 THEN flen - st.off ELSE n1
             IN IF n = 0 THEN [st EXCEPT !.stop = TRUE]
                ELSE [st EXCEPT !.total = @ + n, !.off = @ + n,
                                !.addrs = @ \o [i \in 1 .. n |-> cl.device_offset + po + i - 1]]

TransferStart(off) == [stop |-> FALSE, total |-> 0, off |-> off, addrs |-> <<>>]

\* exfat_read: the bytes read, the offset it advanced, the device offsets.
exfat_read(cls, off, len, flen) ==
    FoldLeft(LAMBDA st, cl : TransferStep(len, flen, st, cl), TransferStart(off), cls)

\* exfat_write: the same loop over device_fops->write.
exfat_write(cls, off, len, flen) ==
    FoldLeft(LAMBDA st, cl : TransferStep(len, flen, st, cl), TransferStart(off), cls)

\* SYSCALL_READ on the file: vfs_read returns what exfat_read returns.
Read(len) ==
    LET d == dentries[filp.ino]
        r == exfat_read(d.clusters, filp.offset, len, d.file_length)
    IN /\ filp.ino # 0 /\ ~stopped
       /\ filp.offset <= MaxOffset
       /\ filp' = [filp EXCEPT !.offset = r.off]
       /\ lastIo' = [op |-> "read", offset |-> filp.offset, length |-> len, ret |-> r.total, addrs |-> r.addrs]
       /\ UNCHANGED <<fat, dir, mounted, root_load_needed, dentries, faults, stopped>>

\* SYSCALL_WRITE: vfs_write adds bytes_written to filp->offset after
\* exfat_write has advanced it.
Write(len) ==
    LET d == dentries[filp.ino]
        w == exfat_write(d.clusters, filp.offset, len, d.file_length)
    IN /\ filp.ino # 0 /\ ~stopped
       /\ filp.offset <= MaxOffset
       /\ filp' = [filp EXCEPT !.offset = w.off + w.total]
       /\ lastIo' = [op |-> "write", offset |-> filp.offset, length |-> len, ret |-> w.total, addrs |-> w.addrs]
       /\ UNCHANGED <<fat, dir, mounted, root_load_needed, dentries, faults, stopped>>

\* SYSCALL_LSEEK with SEEK_SET.
Lseek(off) ==
    /\ filp.ino # 0 /\ ~stopped
    /\ filp' = [filp EXCEPT !.offset = off]
    /\ lastIo' = NoIo
    /\ UNCHANGED <<fat, dir, mounted, root_load_needed, dentries, faults, stopped>>

Next ==
    \/ exfat_mount
    \/ LookupRoot
    \/ LookupRootFault
    \/ LookupRootHang
    \/ \E i \in DOMAIN dentries : Open(i)
    \/ \E len \in Lengths : Read(len) \/ Write(len)
    \/ \E off \in 0 .. MaxOffset : Lseek(off)

Spec == Init /\ [][Next]_vars

-----------------------------------------------------------------------------
(* Properties                                                              *)

DentryType ==
    [directory : BOOLEAN, lba : Nat, file_length : Nat,
     name : [1 .. DENTRY_MAX_NAME_LENGTH + 1 -> {"c", NUL}],
     load_needed : BOOLEAN, clusters : Seq([byte_offset : Nat, device_offset : Nat])]

ExfatTypeOK ==
    /\ fat \in [Clusters -> FatValues]
    /\ {mounted, root_load_needed, stopped} \subseteq BOOLEAN
    /\ dentries \in Seq(DentryType)
    /\ faults \in 0 .. MaxFaults
    /\ filp.ino \in 0 .. Len(dentries) /\ filp.offset \in Nat
    /\ lastIo.op \in {"none", "read", "write"} /\ lastIo.ret <= lastIo.length

\* The root's entries up to its end-of-directory entry, and the positions
\* of its file entries.
RootDirectory ==
    LET ends == {k \in DOMAIN RootEntries : RootEntries[k].type = "end"}
    IN IF ends = {} THEN RootEntries ELSE SubSeq(RootEntries, 1, Min(ends) - 1)

FileSets == SelectSeq([k \in DOMAIN RootDirectory |-> k],
                      LAMBDA k : RootDirectory[k].type = "file")

\* What a file set says by the exFAT layout: the stream extension right
\* after the file entry gives the first cluster and, for a file, the length.
RefDentry(p) ==
    LET hasStream == p + 1 \in DOMAIN RootDirectory /\ RootDirectory[p + 1].type = "stream"
        isdir == RootDirectory[p].directory
    IN [directory |-> isdir,
        lba |-> IF hasStream THEN ClusterLba(RootDirectory[p + 1].start) ELSE 0,
        file_length |-> IF hasStream /\ ~isdir THEN RootDirectory[p + 1].length ELSE 0]

(***************************************************************************)
(* Once exfat_lookup has loaded the root, its dentries are its file sets, *)
(* in order, each with the type, first cluster and length of its own     *)
(* stream extension: for file sets split across clusters, directory       *)
(* entries, skipped entries and end-of-directory entries anywhere in a   *)
(* page, over every chain the FAT gives the root.                         *)
(***************************************************************************)
DirMatchesEntries ==
    ~root_load_needed =>
        /\ Len(dentries) = Len(FileSets)
        /\ \A i \in DOMAIN dentries :
               [directory |-> dentries[i].directory, lba |-> dentries[i].lba,
                file_length |-> dentries[i].file_length] = RefDentry(FileSets[i])

\* The clusters of a regular file by the exFAT layout: the chain from its
\* first cluster, one cluster per ClusterBytes of its length.
FileChain(d) ==
    Walk(ClusterIndex(d.lba), (d.file_length + ClusterBytes - 1) \div ClusterBytes)

(***************************************************************************)
(* After exfat_lookup has loaded a file, its cluster list is its chain:   *)
(* the k-th entry starts at byte (k-1) * ClusterBytes of the file and at  *)
(* the device offset of the chain's k-th cluster, for every FAT, with     *)
(* chains that end early, are marked bad or loop, and lengths on and off  *)
(* a cluster boundary.                                                    *)
(***************************************************************************)
LoadFollowsChain ==
    \A i \in DOMAIN dentries :
        (~dentries[i].directory /\ ~dentries[i].load_needed) =>
            dentries[i].clusters =
                [k \in DOMAIN FileChain(dentries[i]) |->
                    [byte_offset |-> (k - 1) * ClusterBytes,
                     device_offset |-> DeviceOffset(FileChain(dentries[i])[k])]]

\* The device offsets that belong to a file.
FileBytes(d) ==
    UNION {DeviceOffset(n) .. DeviceOffset(n) + ClusterBytes - 1 : n \in Range(FileChain(d))}

(***************************************************************************)
(* exfat_read and exfat_write touch only the clusters of the open file,  *)
(* for every offset (past the end of the file included) and length: other *)
(* files' data and the directory's entries are never read into the       *)
(* caller's buffer or overwritten, unless the FAT shares their clusters.  *)
(***************************************************************************)
TransferStaysInFile ==
    filp.ino # 0 => Range(lastIo.addrs) \subseteq FileBytes(dentries[filp.ino])

(***************************************************************************)
(* A read returns the bytes of the file from the offset on, up to its    *)
(* end: byte k is at offset k % ClusterBytes of the chain's               *)
(* (k \div ClusterBytes + 1)-th cluster.  Stated for files whose chain    *)
(* covers their length.                                                   *)
(***************************************************************************)
RefRead(d, off, len) ==
    [k \in 1 .. (IF off < d.file_length
                 THEN (IF off + len < d.file_length THEN off + len ELSE d.file_length) - off
                 ELSE 0) |->
        DeviceOffset(FileChain(d)[(off + k - 1) \div ClusterBytes + 1]) + ((off + k - 1) % ClusterBytes)]

ReadMatchesContent ==
    LET d == dentries[filp.ino] IN
    (lastIo.op = "read" /\ Len(FileChain(d)) * ClusterBytes >= d.file_length)
        => lastIo.addrs = RefRead(d, lastIo.offset, lastIo.length)

(***************************************************************************)
(* A write moves the file's offset by the number of bytes it wrote.       *)
(***************************************************************************)
WriteAdvancesOnce ==
    lastIo.op = "write" => filp.offset = lastIo.offset + lastIo.ret

(***************************************************************************)
(* Every name exfat_load_dir_inode builds is NUL-terminated within        *)
(* name[], as strklcmp in vfs_resolve and getdents need.                  *)
(***************************************************************************)
NameTerminated ==
    \A i \in DOMAIN dentries : \E j \in DOMAIN dentries[i].name : dentries[i].name[j] = NUL

=============================================================================
