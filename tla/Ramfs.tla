------------------------------- MODULE Ramfs -------------------------------
(***************************************************************************)
(* The file data of fs/ramfs.c: a struct ramfs_inode is a size and a list *)
(* of fixed clusters of RAMFS_CLUSTER_CAPACITY bytes.  Like Kmem, this    *)
(* module only defines operators over a record r = [size, clusters]; the  *)
(* module that holds the inodes applies them.  A cluster is a function    *)
(* from 1..RAMFS_CLUSTER_CAPACITY to bytes; byte offset pos of the file   *)
(* lies in cluster pos \div C + 1 at index pos % C + 1.                   *)
(***************************************************************************)
EXTENDS Integers, Sequences, SequencesExt, FiniteSetsExt

CONSTANT RAMFS_CLUSTER_CAPACITY

C == RAMFS_CLUSTER_CAPACITY

ASSUME C \in Nat \ {0}

\* ramfs_create_file_inode: a fresh slab slot (zeroed page) with an empty list.
RamfsInodeNew == [size |-> 0, clusters |-> <<>>]

ZeroCluster == [b \in 1 .. C |-> 0]

ClusterStart(j) == (j - 1) * C

(***************************************************************************)
(* ramfs_set_size.  The do-while walks or appends one cluster per pass   *)
(* and stops once cluster_start reaches size, so it keeps at least one    *)
(* cluster even for size 0; the clusters after the last pass are dropped. *)
(* An appended cluster is zeroed; a kept one keeps its bytes.             *)
(***************************************************************************)
ClustersFor(size) == IF size <= C THEN 1 ELSE (size + C - 1) \div C

ramfs_set_size(r, size) ==
    LET k == ClustersFor(size)
        kept == SubSeq(r.clusters, 1, Min({k, Len(r.clusters)}))
    IN [size |-> size, clusters |-> kept \o [j \in 1 .. k - Len(kept) |-> ZeroCluster]]

(***************************************************************************)
(* ramfs_write: grow the file when the write ends past its size, then     *)
(* memcpy into every cluster whose range overlaps [offset, offset + len)  *)
(* while cluster_start < write_end.  Returns the record and length.       *)
(***************************************************************************)
ramfs_write(r, off, len, byte) ==
    LET e == off + len
        r1 == IF e > r.size THEN ramfs_set_size(r, e) ELSE r
        Copy(j) == [b \in 1 .. C |->
                      IF off <= ClusterStart(j) + b - 1 /\ ClusterStart(j) + b - 1 < e
                      THEN byte ELSE r1.clusters[j][b]]
    IN IF len = 0 THEN [inode |-> r, ret |-> 0]
       ELSE [inode |-> [r1 EXCEPT !.clusters =
                          [j \in DOMAIN @ |->
                             IF ClusterStart(j) < e /\ off < ClusterStart(j) + C THEN Copy(j) ELSE @[j]]],
             ret |-> len]

\* A read whose end is not clamped to the file's size.
ramfs_read_unclamped(r, off, len) ==
    LET e == off + len
        copying == {j \in 1 .. Len(r.clusters) : ClusterStart(j) < e /\ off < ClusterStart(j) + C}
        cs(j) == Max({off, ClusterStart(j)})
        ce(j) == Min({e, ClusterStart(j) + C})
        copied == UNION {cs(j) .. ce(j) - 1 : j \in copying}
        ClusterOf(pos) == CHOOSE j \in copying : cs(j) <= pos /\ pos < ce(j)
    IN IF e = off THEN [overrun |-> FALSE, ret |-> 0, data |-> <<>>]
       ELSE [overrun |-> \E j \in copying : ce(j) < cs(j),
             ret |-> Cardinality(copied),
             data |-> [k \in {pos - off + 1 : pos \in copied} |->
                         r.clusters[ClusterOf(off + k - 1)][off + k - 1 - ClusterStart(ClusterOf(off + k - 1)) + 1]]]

(***************************************************************************)
(* ramfs_read.  read_end is min(offset + length, size); the loop visits   *)
(* the clusters that start below read_end while the list lasts, and for   *)
(* each that ends after offset copies [max(offset, start),                *)
(* min(read_end, end)).  When offset lies past size but inside the last   *)
(* visited cluster, that range is empty with its end below its start: the *)
(* size_t subtraction wraps and memcpy copies about 2^64 bytes, which     *)
(* runs into an unmapped page ("overrun").  Otherwise data holds the      *)
(* copied bytes by buffer index, and ret the count, which ramfs_read also *)
(* adds to filp->offset.                                                   *)
(***************************************************************************)
ramfs_read(r, off, len) ==
    LET e == Min({off + len, r.size})
        copying == {j \in 1 .. Len(r.clusters) : ClusterStart(j) < e /\ off < ClusterStart(j) + C}
        cs(j) == Max({off, ClusterStart(j)})
        ce(j) == Min({e, ClusterStart(j) + C})
        copied == UNION {cs(j) .. ce(j) - 1 : j \in copying}
        ClusterOf(pos) == CHOOSE j \in copying : cs(j) <= pos /\ pos < ce(j)
    IN IF e = off THEN [overrun |-> FALSE, ret |-> 0, data |-> <<>>]
       ELSE [overrun |-> \E j \in copying : ce(j) < cs(j),
             ret |-> Cardinality(copied),
             data |-> [k \in {pos - off + 1 : pos \in copied} |->
                         r.clusters[ClusterOf(off + k - 1)][off + k - 1 - ClusterStart(ClusterOf(off + k - 1)) + 1]]]

(***************************************************************************)
(* The reference: the file's content is the first size bytes of its       *)
(* clusters in order, and a read at an offset within the file returns the *)
(* next bytes of it, up to the end of the file.                            *)
(***************************************************************************)
Content(r) == SubSeq(FlattenSeq(r.clusters), 1, r.size)

RefRead(r, off, len) == SubSeq(Content(r), off + 1, Min({off + len, r.size}))

=============================================================================
