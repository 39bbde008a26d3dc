---------------------------- MODULE AddressSpace ----------------------------
(***************************************************************************)
(* Per-task memory: kernel stack and PML4 (scheduler.c), the lazily built *)
(* page-table tree (map.c), user ranges mapped page by page (userspace.c), *)
(* and the memory side of fork, exec, brk, exit and waitpid (syscall.c).   *)
(*                                                                         *)
(* Addresses are counted in units, PageUnits to a page; a virtual page v   *)
(* has the table index (v \div Fanout^(l-1)) % Fanout at level l, as the   *)
(* C code takes 9-bit slices.  A table page is named by <<l, v \div        *)
(* Fanout^l>>, the part of the address above the slice it covers.  Each    *)
(* leaf entry records the frame and a data tag: the user address whose     *)
(* bytes the first unit of the frame holds.                                *)
(***************************************************************************)
EXTENDS Kmem, Sequences, SequencesExt, TLC

CONSTANTS
    Tasks,          \* task_struct slots
    KernelThread,   \* the slot of kt-hw-init, which has no user memory
    InitTask,       \* the slot of init
    InitImage,      \* the ELF image of bin/init
    Images,         \* the ELF images exec may load
    PageUnits,      \* address units per page
    Fanout,         \* entries per table page
    StackPage,      \* the virtual page of the fixed stack range
    BrkTargets      \* brk arguments

VARIABLES
    status, kmem_used_pages,   \* kmem_page_array[].status, kmem_used_pages
    taskState,                 \* "Free", "Running" or "Zombie" per slot
    kstack, pml4,              \* kernel_stack_pages, pml4_page
    tables,                    \* the PTPD, PD and PT pages under the PML4
    leaves,                    \* PT entries: virtual page -> [frame, tag]
    ranges,                    \* memory_ranges_lh
    halted                     \* a kernel panic stopped the machine

vars == <<status, kmem_used_pages, taskState, kstack, pml4, tables, leaves, ranges, halted>>

UserTasks == Tasks \ {KernelThread}
RangeTypes == {"NORMAL", "HEAP", "STACK"}
VPageOf(addr) == addr \div PageUnits

\* The memory record of the current state, and storing one back.
Mem == [status |-> status, used |-> kmem_used_pages, panic |-> halted]
WithMem(a, m) == [a EXCEPT !.status = m.status, !.used = m.used, !.panic = m.panic]

TableKey(v, l) == <<l, v \div (Fanout ^ l)>>

(***************************************************************************)
(* set_page_mapping: allocate each missing PTPD, PD and PT page in that   *)
(* order, then write the leaf, replacing whatever entry was there.         *)
(***************************************************************************)
EnsureTable(a, key) ==
    IF key \in DOMAIN a.tables THEN a
    ELSE LET m == kpage_alloc(a, 1)
         IN [WithMem(a, m) EXCEPT !.tables = (key :> m.page) @@ a.tables]

set_page_mapping(a, v, frame, tag) ==
    LET a3 == EnsureTable(a, TableKey(v, 3))
        a2 == EnsureTable(a3, TableKey(v, 2))
        a1 == EnsureTable(a2, TableKey(v, 1))
    IN IF a1.panic THEN a1
       ELSE [a1 EXCEPT !.leaves = (v :> [frame |-> frame, tag |-> tag]) @@ a1.leaves]

\* map_user_page: a fresh zeroed frame first, then the mapping.
map_user_page(a, addr, tag) ==
    LET m == kpage_alloc(a, 1)
    IN set_page_mapping(WithMem(a, m), VPageOf(addr), m.page, tag)

(***************************************************************************)
(* The page loops.  setup_userspace_memory masks the range start down to a *)
(* page boundary; the fork loop in syscall.c starts at the unmasked start. *)
(* A fresh page holds the data of its own address.  A page fork copies     *)
(* holds the parent's bytes from the address it copied from.               *)
(***************************************************************************)
RECURSIVE MapPages(_, _, _, _)
MapPages(a, page, end, src) ==
    IF page >= end THEN a
    ELSE LET tag == IF src = <<>> THEN VPageOf(page) * PageUnits
                    ELSE src[VPageOf(page)].tag + (page % PageUnits)
         IN MapPages(map_user_page(a, page, tag), page + PageUnits, end, src)

PageStart(addr) == VPageOf(addr) * PageUnits

setup_userspace_memory(a, rs) ==
    FoldLeft(LAMBDA acc, r : MapPages(acc, PageStart(r.start), r.end, <<>>), a, rs)

free_userspace_memory_leaves_only(a) ==
    LET frames == {a.leaves[v].frame : v \in DOMAIN a.leaves}
    IN IF a.panic THEN a
       ELSE [a EXCEPT !.status = [j \in Frames |-> IF j \in frames THEN "FREE" ELSE a.status[j]],
                      !.used = a.used - Cardinality(DOMAIN a.leaves),
                      !.tables = <<>>, !.leaves = <<>>]

\* free_userspace_memory: every present leaf, then every table page below
\* the PML4, one kpage_free(p, 1) each; the range list is emptied.
free_userspace_memory(a) ==
    LET frames == {a.leaves[v].frame : v \in DOMAIN a.leaves} \cup
                  {a.tables[k] : k \in DOMAIN a.tables}
    IN IF a.panic THEN a
       ELSE [a EXCEPT !.status = [j \in Frames |-> IF j \in frames THEN "FREE" ELSE a.status[j]],
                      !.used = a.used - Cardinality(DOMAIN a.leaves) - Cardinality(DOMAIN a.tables),
                      !.tables = <<>>, !.leaves = <<>>]

(***************************************************************************)
(* load_elf64: a NORMAL range per non-null segment, a one-page HEAP range  *)
(* from the highest segment end rounded up to a page, and the STACK range. *)
(***************************************************************************)
ElfRanges(img) ==
    LET segs == SelectSeq(img, LAMBDA s : ~(s.vaddr = 0 /\ s.memsz = 0))
        normal == [i \in 1 .. Len(segs) |->
                     [type |-> "NORMAL", start |-> segs[i].vaddr, end |-> segs[i].vaddr + segs[i].memsz]]
        largest == FoldLeft(LAMBDA acc, r : IF r.end > acc THEN r.end ELSE acc, 0, normal)
        heapStart == IF largest % PageUnits # 0 THEN PageStart(largest) + PageUnits ELSE largest
    IN normal \o << [type |-> "HEAP", start |-> heapStart, end |-> heapStart + PageUnits],
                    [type |-> "STACK", start |-> StackPage * PageUnits,
                                       end |-> (StackPage + 1) * PageUnits] >>

load_elf64(a, img) == [setup_userspace_memory(a, ElfRanges(img)) EXCEPT !.ranges = ElfRanges(img)]

\* The address-space record of task t in the current state.
SpaceOf(t) == [status |-> status, used |-> kmem_used_pages, panic |-> halted,
               kstack |-> kstack[t], pml4 |-> pml4[t],
               tables |-> tables[t], leaves |-> leaves[t], ranges |-> ranges[t]]

\* setup_kernelspace_memory: the two-page kernel stack, then the PML4 page.
setup_kernelspace_memory(a) ==
    LET ks == kpage_alloc(a, 2)
        pm == kpage_alloc(ks, 1)
    IN [WithMem(a, pm) EXCEPT !.kstack = ks.page, !.pml4 = pm.page]

\* A task struct whose fields fork and main.c have just initialised.
NewSpace(m) == [status |-> m.status, used |-> m.used, panic |-> m.panic, kstack |-> -1,
                pml4 |-> -1, tables |-> <<>>, leaves |-> <<>>, ranges |-> <<>>]

\* Store the address space a of task t, in state st.
Store(t, a, st) ==
    /\ status' = a.status
    /\ kmem_used_pages' = a.used
    /\ halted' = a.panic
    /\ taskState' = [taskState EXCEPT ![t] = st]
    /\ kstack' = [kstack EXCEPT ![t] = a.kstack]
    /\ pml4' = [pml4 EXCEPT ![t] = a.pml4]
    /\ tables' = [tables EXCEPT ![t] = a.tables]
    /\ leaves' = [leaves EXCEPT ![t] = a.leaves]
    /\ ranges' = [ranges EXCEPT ![t] = a.ranges]

(***************************************************************************)
(* main.c: init gets its kernel memory and bin/init, then kt-hw-init gets  *)
(* its kernel memory.  Every other slot is free.                           *)
(***************************************************************************)
ASInit ==
    LET init == load_elf64(setup_kernelspace_memory(NewSpace(KmemInit)), InitImage)
        kt   == setup_kernelspace_memory(NewSpace(init))
        Of(t, f, none) == IF t = InitTask THEN init[f] ELSE IF t = KernelThread THEN kt[f] ELSE none
    IN /\ status = kt.status
       /\ kmem_used_pages = kt.used
       /\ halted = kt.panic
       /\ taskState = [t \in Tasks |-> IF t \in {InitTask, KernelThread} THEN "Running" ELSE "Free"]
       /\ kstack = [t \in Tasks |-> Of(t, "kstack", -1)]
       /\ pml4 = [t \in Tasks |-> Of(t, "pml4", -1)]
       /\ tables = [t \in Tasks |-> Of(t, "tables", <<>>)]
       /\ leaves = [t \in Tasks |-> Of(t, "leaves", <<>>)]
       /\ ranges = [t \in Tasks |-> Of(t, "ranges", <<>>)]

Runs(t) == t \in UserTasks /\ taskState[t] = "Running" /\ ~halted

(***************************************************************************)
(* SYSCALL_FORK, memory side: the task struct (first free slot), kernel    *)
(* memory, then for each range of the parent a page loop from range->start *)
(* (not masked) while below range->end, each page a fresh frame with the   *)
(* PAGE_SIZE bytes of the parent from that address.                        *)
(***************************************************************************)
ForkClone(a, rs, src) ==
    FoldLeft(LAMBDA acc, r : MapPages(acc, r.start, r.end, src), a, rs)

Fork(p) ==
    /\ Runs(p)
    /\ \E t \in Tasks : taskState[t] = "Free"
    /\ LET c == Min({t \in Tasks : taskState[t] = "Free"})
           k == setup_kernelspace_memory(NewSpace(Mem))
           a == ForkClone(k, ranges[p], leaves[p])
       IN Store(c, [a EXCEPT !.ranges = ranges[p]], "Running")

(***************************************************************************)
(* SYSCALL_EXEC: a path page and a stack page; on a failed lookup both are *)
(* freed and exec returns -1.  Otherwise the old user memory goes, the     *)
(* image is loaded, and the stack page and the path page are freed.        *)
(***************************************************************************)
Exec(t) ==
    /\ Runs(t)
    /\ \E found \in BOOLEAN, img \in Images :
        LET pathBuf  == kpage_alloc(SpaceOf(t), 1)
            stackBuf == kpage_alloc(pathBuf, 1)
            a0 == WithMem(SpaceOf(t), stackBuf)
            a1 == IF found THEN load_elf64(free_userspace_memory(a0), img) ELSE a0
        IN Store(t, kpage_free(kpage_free(a1, stackBuf.page, 1), pathBuf.page, 1), "Running")

(***************************************************************************)
(* SYSCALL_BRK: find the HEAP range; brk(0) or no heap returns at once;   *)
(* otherwise map a page at the heap end while the end is below the target. *)
(***************************************************************************)
GrownEndSetsTarget(end, target) == target

GrownEnd(end, target) ==
    IF target > end THEN end + ((target - end + PageUnits - 1) \div PageUnits) * PageUnits ELSE end

Brk(t) ==
    /\ Runs(t)
    /\ \E target \in BrkTargets :
        LET h == SelectInSeq(ranges[t], LAMBDA r : r.type = "HEAP")
            a == MapPages(SpaceOf(t), ranges[t][h].end, target, <<>>)
        IN IF h = 0 \/ target = 0 THEN UNCHANGED vars
           ELSE Store(t, [a EXCEPT !.ranges[h].end = GrownEnd(ranges[t][h].end, target)], "Running")

\* SYSCALL_EXIT (and a fault or kill): the task becomes a zombie and keeps
\* all its memory until it is reaped.
Exit(t) ==
    /\ Runs(t)
    /\ taskState' = [taskState EXCEPT ![t] = "Zombie"]
    /\ UNCHANGED <<status, kmem_used_pages, kstack, pml4, tables, leaves, ranges, halted>>

(***************************************************************************)
(* SYSCALL_WAITPID once its target is a zombie: free_userspace_memory,     *)
(* free_kernelspace_memory (PML4, then the stack), free_task.              *)
(***************************************************************************)
Reap(w, t) ==
    /\ Runs(w)
    /\ w # t
    /\ taskState[t] = "Zombie"
    /\ LET a == free_userspace_memory(SpaceOf(t))
           m == kpage_free(kpage_free(a, pml4[t], 1), kstack[t], 2)
       IN Store(t, NewSpace(m), "Free")

\* With no user task left running, only kt-hw-init's loop runs, and it
\* allocates nothing.
KernelLoop == ~halted /\ \A t \in UserTasks : taskState[t] # "Running" /\ UNCHANGED vars

\* After a panic the machine halts for good.
Halt == halted /\ UNCHANGED vars

ASNext ==
    \/ \E t \in Tasks : Fork(t) \/ Exec(t) \/ Brk(t) \/ Exit(t)
    \/ \E w, t \in Tasks : Reap(w, t)
    \/ KernelLoop
    \/ Halt

ASSpec == ASInit /\ [][ASNext]_vars

(***************************************************************************)
(* Properties.                                                             *)
(***************************************************************************)
Live == {t \in Tasks : taskState[t] # "Free"}

ASTypeOK ==
    /\ status \in [Frames -> PageStatuses]
    /\ kmem_used_pages \in 0 .. NumPages
    /\ taskState \in [Tasks -> {"Free", "Running", "Zombie"}]
    /\ \A t \in Live : /\ kstack[t] \in Frames /\ pml4[t] \in Frames
                       /\ \A r \in ToSet(ranges[t]) : r.type \in RangeTypes /\ r.start <= r.end
    /\ halted \in BOOLEAN

\* How many references of the live tasks' kernel stacks, PML4s, table pages
\* and leaf entries point at frame f.
OwnerCount(f) ==
    MapThenSumSet(LAMBDA t :
        (IF f \in {kstack[t], kstack[t] + 1} THEN 1 ELSE 0)
        + (IF f = pml4[t] THEN 1 ELSE 0)
        + Cardinality({k \in DOMAIN tables[t] : tables[t][k] = f})
        + Cardinality({v \in DOMAIN leaves[t] : leaves[t][v].frame = f}), Live)

\* kpage_alloc and kpage_free keep kmem_used_pages equal to the number of
\* USED pages, through every fork, exec, brk and waitpid the tasks make.
UsedPagesCounted ==
    ~halted => kmem_used_pages = Cardinality({f \in Frames : status[f] = "USED"})

\* Every USED frame belongs to exactly one kernel stack, PML4, table page or
\* leaf of a live or zombie task, and no task refers to a frame that is not
\* USED: free_userspace_memory and free_kernelspace_memory give back exactly
\* what fork, exec, brk and set_page_mapping took, and no frame is shared.
FramesOwnedOnce ==
    ~halted => \A f \in Frames : OwnerCount(f) = IF status[f] = "USED" THEN 1 ELSE 0

\* The scan of kpage_alloc finds the lowest run of free pages, for the two
\* run lengths the kernel asks for, in every page array the tasks produce.
KpageScanIsFirstFit ==
    \A n \in {1, 2} : KpageScan(status, 0, 0, n) = FirstFitRef(status, n)

\* Every user page a task maps holds the data of its own address: a page
\* that fork copied holds the bytes the parent has at the same address.
UserDataInPlace ==
    ~halted => \A t \in Live : \A v \in DOMAIN leaves[t] : leaves[t][v].tag = v * PageUnits

=============================================================================
