-------------------------------- MODULE Kmem --------------------------------
(***************************************************************************)
(* The physical page allocator of mm/kmem.c: a flat array of per-page      *)
(* status tags, a first-fit linear scan for a run of free pages, and a     *)
(* free that trusts its caller for the run length.                         *)
(*                                                                         *)
(* The allocator has no state of its own beyond the array and the          *)
(* kmem_used_pages counter, so this module only defines operators over a   *)
(* memory record m = [status, used, panic].  The modules that use it thread *)
(* one record through the sequence of allocations a kernel routine makes.  *)
(***************************************************************************)
EXTENDS Integers, FiniteSets, FiniteSetsExt

CONSTANTS
    NumPages,        \* kmem_total_pages
    PageArrayPages   \* page_array_pages: the head of the region holding the array

ASSUME NumPages \in Nat /\ PageArrayPages \in 1..NumPages

Frames == 0 .. NumPages - 1

\* KPAGE_PAGE_ARRAY, KPAGE_FREE, KPAGE_USED (KPAGE_DEVICE is never assigned).
PageStatuses == {"PAGE_ARRAY", "FREE", "USED"}

\* kmem_init: the first page_array_pages pages hold the array, the rest are free.
kmem_init_status == [i \in Frames |-> IF i < PageArrayPages THEN "PAGE_ARRAY" ELSE "FREE"]

KmemInit == [status |-> kmem_init_status, used |-> 0, panic |-> FALSE]

(***************************************************************************)
(* The scan loop of kpage_alloc.  It returns the first_page_index of the  *)
(* run, or -1 where the C code panics with "Out of physical memory".       *)
(***************************************************************************)
RECURSIVE KpageScanNoReset(_, _, _, _)
KpageScanNoReset(st, i, consecutive_free, n) ==
    IF i >= NumPages THEN -1
    ELSE IF st[i] = "FREE"
         THEN IF consecutive_free + 1 = n THEN i - n + 1
              ELSE KpageScanNoReset(st, i + 1, consecutive_free + 1, n)
         ELSE KpageScanNoReset(st, i + 1, consecutive_free, n)

RECURSIVE KpageScan(_, _, _, _)
KpageScan(st, i, consecutive_free, n) ==
    IF i >= NumPages THEN -1
    ELSE IF st[i] = "FREE"
         THEN IF consecutive_free + 1 = n THEN i - n + 1
              ELSE KpageScan(st, i + 1, consecutive_free + 1, n)
         ELSE KpageScan(st, i + 1, 0, n)

\* The reference the scan is checked against: the lowest index that starts
\* a run of n free pages, or -1 when there is none.
FirstFitRef(st, n) ==
    LET starts == {i \in Frames : /\ i + n <= NumPages
                                  /\ \A j \in i .. i + n - 1 : st[j] = "FREE"}
    IN IF starts = {} THEN -1 ELSE Min(starts)

(***************************************************************************)
(* kpage_alloc(n) on memory record m.  The result record carries the      *)
(* first page of the run in field "page".  A panic marks the record and    *)
(* leaves the array as it was; every later operation on a panicked record  *)
(* is a no-op, because the machine has halted.                             *)
(***************************************************************************)
kpage_alloc(m, n) ==
    IF m.panic THEN [status |-> m.status, used |-> m.used, panic |-> TRUE, page |-> -1]
    ELSE LET first == KpageScan(m.status, 0, 0, n)
         IN IF first = -1
            THEN [status |-> m.status, used |-> m.used, panic |-> TRUE, page |-> -1]
            ELSE [status |-> [j \in Frames |->
                                 IF j \in first .. first + n - 1 THEN "USED" ELSE m.status[j]],
                  used   |-> m.used + n,
                  panic  |-> FALSE,
                  page   |-> first]

kpage_free_count_one(m, first, n) ==
    IF m.panic THEN m
    ELSE [m EXCEPT !.status = [j \in Frames |->
                                  IF j \in first .. first + n - 1 THEN "FREE" ELSE m.status[j]],
                   !.used = m.used - 1]

\* kpage_free(page, n): no check that the pages were in use, or that n is the
\* length they were allocated with.
kpage_free(m, first, n) ==
    IF m.panic THEN m
    ELSE [m EXCEPT !.status = [j \in Frames |->
                                  IF j \in first .. first + n - 1 THEN "FREE" ELSE m.status[j]],
                   !.used = m.used - n]

\* The page field only carries a result; drop it before storing the record.
MemOf(m) == [status |-> m.status, used |-> m.used, panic |-> m.panic]

=============================================================================
