------------------------------- MODULE FdMap -------------------------------
(***************************************************************************)
(* What a task's file-descriptor table promises (spec.md, "File"): each   *)
(* task maps unique fd numbers to an open file, an inode and an offset.   *)
(* open binds an unused fd to an inode at offset 0, close unbinds one,    *)
(* dup2 binds newfd to a copy of oldfd's file, lseek, read and write move *)
(* an offset, fork gives the child a copy of the parent's table, and      *)
(* reaping destroys the table.  Nothing else changes a table.             *)
(***************************************************************************)
EXTENDS Integers, Functions, TLC

CONSTANTS Tasks, Fds, Inodes, Offsets

VARIABLE fdmap

NoFiles == [fd \in {} |-> 0]
File(i, off) == [inode |-> i, offset |-> off]

AInit == fdmap = [t \in Tasks |-> NoFiles]

(***************************************************************************)
(* Each step relates the table before, m, to the table after, m2.          *)
(***************************************************************************)
AOpen(m, m2, t) ==
    \E fd \in Fds \ DOMAIN m[t], i \in Inodes :
        m2 = [m EXCEPT ![t] = (fd :> File(i, 0)) @@ @]

AClose(m, m2, t) ==
    \E fd \in DOMAIN m[t] :
        m2 = [m EXCEPT ![t] = Restrict(@, DOMAIN @ \ {fd})]

ADup2(m, m2, t) ==
    \E old \in DOMAIN m[t], new \in Fds :
        m2 = [m EXCEPT ![t] = (new :> @[old]) @@ @]

ALseek(m, m2, t) ==
    \E fd \in DOMAIN m[t], off \in Offsets :
        m2 = [m EXCEPT ![t][fd].offset = off]

AFork(m, m2, p, c) ==
    /\ m[c] = NoFiles
    /\ m2 = [m EXCEPT ![c] = m[p]]

ARelease(m, m2, t) == m2 = [m EXCEPT ![t] = NoFiles]

AStep(m, m2) ==
    \E t \in Tasks :
        \/ AOpen(m, m2, t) \/ AClose(m, m2, t) \/ ADup2(m, m2, t)
        \/ ALseek(m, m2, t) \/ ARelease(m, m2, t)
        \/ \E c \in Tasks \ {t} : AFork(m, m2, t, c)

ANext == AStep(fdmap, fdmap')

ASpec == AInit /\ [][ANext]_fdmap

=============================================================================
