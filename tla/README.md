# TLA+ models of the persistos64 kernel

This directory holds TLA+ models of the persistos64 x86-64 kernel (`src/kernel/src`) and of the
shell's line editor (`src/userspace/src/shell.c`) and of the C library routines the two share
(`src/userspace/src/cstd.c`, declared for the kernel by `lib/cstd.h`),
the TLC configurations that check them, and this description. Every definition is
translated from the C source. `PROJECT.json` maps each definition to the source lines
it models. It also lists the runs, the mutants that show each property can fail, the
findings, and the hazards the properties aim at.

## 1. Inventory

### Components, their state and operations

| Component | Source | State | Operations |
|---|---|---|---|
| Physical page allocator | `mm/kmem.c` | `kmem_page_array[i].status` ∈ {PAGE_ARRAY, FREE, USED, DEVICE}, `kmem_used_pages`, `dmem_used_pages` | `kmem_init`, `kpage_alloc(n)` (first-fit linear scan, panics when no run is found), `kpage_free(p, n)` (no size bookkeeping and no double-free check), `dpage_alloc` |
| Slab allocator | `mm/slab.c` | per allocator: list of slab pages, newest first (`list_add`), each with four 64-bit free bitmaps | `slab_try_alloc` (first fit over pages, then over bits), `slab_alloc` (adds a page when every page is full), `slab_free` (sets the bit again; no check that it was clear) |
| Page-table mapper | `mm/map.c`, `mm/userspace.c` | 4-level page-table tree per task (`pml4_page`) | `set_page_mapping` (allocates missing levels lazily), `map_user_page`, `setup_userspace_memory`, `free_userspace_memory` (frees leaves, then tables; keeps the PML4) |
| Task scheduler | `kernel/scheduler.c` | `task_struct_lh` (circular list, kept in pid order), `current_task_ts`, `pid_counter`, per task: pid, state ∈ {RUNNING, WAITING, ZOMBIE}, exit code, kernel stack, PML4, memory ranges, open files | `task_yield` (round robin from the task after the current one; halts the CPU when the walk gets back to the current task), `next_task_struct`, `setup_kernelspace_memory`, `free_kernelspace_memory`, `free_task`, `task_struct_find` |
| Task syscalls | `kernel/syscall.c` | the scheduler's state | `exit`, `sched_yield`, `fork`, `exec`, `brk`, `waitpid`, `kill`, `sleep`, `getpid`, `gettasks` |
| Exceptions and interrupts | `arch/idt.c` | `timer_ticks` | divide error, GPF and page fault turn the current task into a zombie and yield. The timer ISR increments `timer_ticks`. IRQs 9-11 go to `nvme_handle_interrupt`, IRQ 1 to the keyboard. `int 0x80` goes to `handle_syscall`. |
| NVMe driver | `drivers/nvme.c` | per controller: admin and I/O submission rings (`asq_tail/head`, `iosq_tail/head`), completion rings (`acq_head/phase`, `iocq_head/phase`), `command_statuses[128]` ∈ {FREE, IN_FLIGHT, COMPLETED}, namespace geometry | `nvme_probe_1` (boot: map the BAR), `nvme_probe_2` and `nvme_probe_contents` (task: reset, enable, identify, create I/O queues), `start_command`, `finish_command`, `await_command_finish`, `free_command`, `nvme_handle_interrupt`, `nvme_readpage`, `nvme_writepage`, `nvme_read`, `nvme_write` |
| NVMe partitions | `drivers/nvmepart.c` | `nvmepart_devices[]` | `nvmepart_probe` (GPT scan), `nvmepart_read`, `nvmepart_write` (clamp to the partition, then call nvme_read/write) |
| VFS core | `fs/vfs.c` | inode/dentry graph rooted at `vfs_root_inode`, per task file list sorted by fd | `vfs_resolve`, `vfs_create`, `vfs_mkdir`, `vfs_mknod`, `vfs_read`, `vfs_write`, `vfs_ftruncate`, `filp_find`, `filp_insert_point_find`, and the fd syscalls `open`, `close`, `dup2`, `lseek`, `getdents`, `mkdir`, `mount` |
| ramfs | `fs/ramfs.c` | per file: size and a list of 128-byte clusters | `ramfs_create_*`, `ramfs_read`, `ramfs_write`, `ramfs_set_size` |
| exFAT | `fs/exfat.c` | superblock geometry, per inode `load_needed` and a list of 4 KiB file clusters | `exfat_mount`, `exfat_lookup`, `exfat_load_dir_inode`, `exfat_load_file_inode`, `exfat_read`, `exfat_write`. Creation and resize return errors. |
| sysfs, /dev/zero | `fs/sysfs.c`, `drivers/zero.c` | none: text is rendered on every read | read-only reports, zero device |
| TTY input | `drivers/tty.c`, `drivers/keyboard.c` | per VT: input ring (`input_rb_head_idx/tail_idx`, 4096 bytes) | `keyboard_rb_fill` (ISR) → `vt_update_input` → `vt_append_input_character` (producer); `vt_read` (consumer, yields until `length` bytes arrive) |
| C library | `userspace/src/cstd.c` | none | `strlen`, `strcmp`, `strncmp`, `strklcmp` (vfs_resolve's name test, the shell's redirect test), `sprintf_dec` (sysfs meminfo, ps), `parse_n_dec` (kill, sleep, truncate, hd, the shell's exit), `memcpy`, `memset`, `memmove`, `memcmp`, `sprintf_uint64/32/16/8`, `strcpy`, `parse_oct` (tar) |
| Out of scope | `arch/asm.c`, GDT/PIC/PIT setup, `drivers/pci.c`, `fs/tar.c`, TTY rendering, `userspace/` | | see section 5 |

### How the components interact

* **Calls.** Syscalls reach the VFS. The VFS reaches a backend through `filesystem_ops` or a device through
  `file_operations`. exFAT calls `nvmepart_read`, which calls `nvme_read`, which calls `nvme_readpage`. Every
  allocator user calls the slab allocator, and the slab allocator calls `kpage_alloc`.
* **Cooperative suspension.** `task_yield` is the only place a task gives up the CPU. Everything a task does
  between two yields is atomic with respect to other tasks. Blocking is a busy-yield loop in four places:
  `waitpid`, `sleep`, `await_command_finish`, and the queue-full loops of the NVMe driver.
* **Interrupt state shared with tasks.** The NVMe ISR marks `command_statuses[cid]` COMPLETED and advances
  `iocq_head`, `iocq_phase` and `iosq_head`. The task that submitted the command polls the status, frees the
  slot, and reads the completion entry. The timer ISR increments `timer_ticks`, which `sleep` polls. The
  keyboard ISR fills the VT ring, which `vt_read` drains.
* **Shared structures without ownership checks.** Any task may `kill` or `waitpid` any pid. `waitpid` keeps a
  raw pointer to the target's `task_struct` across its yields. The scheduler and both allocators trust callers
  to pass back exactly what they were given.

### Hard behaviours

* Interleavings of tasks at yield points: several waiters on one pid, `kill` of a task that is blocked in
  the driver, or `fork` reusing a slot that a waiter still points to.
* The ISR against task code. The completion ring is read by the ISR, but the submitting task reads the
  entry at the `iocq_head` it saw when it submitted, and completions can arrive in any order.
* Fixed-size resources at their limit: 64-entry rings, 128 command slots, slab slots and pages.
* Numeric edges: `sleep(0)` in 64-bit arithmetic, the 8-bit exit code, the 32-bit `pid_counter`, and uint8
  ring indices.
* Liveness. There is no preemption: a task that never yields starves the others, and every wait is unbounded.

### What makes each component correct

* Scheduler:
  * every runnable task is eventually scheduled, provided every task eventually makes a syscall;
  * the task list holds exactly the allocated `task_struct`s, in pid order;
  * `waitpid(p)` reaps only the zombie with pid `p`, reaps it once, and reports the code it exited with.
* NVMe:
  * a command id is held by at most one task;
  * the host never overwrites a submission entry the controller has not fetched;
  * the ISR consumes each completion exactly once, and never a stale entry;
  * a slot becomes COMPLETED only after the controller completed that command;
  * every submitted request eventually returns;
  * a task checks the status of its own command.
* Page and slab allocators:
  * no frame or slot is handed out twice;
  * `kmem_used_pages` equals the number of USED pages;
  * freeing restores what allocating took;
  * first-fit order.
* Page tables: `free_userspace_memory` frees every frame `set_page_mapping` and `map_user_page` took in the
  lower half, and no other frame.
* VFS:
  * `vfs_resolve` agrees with a reference walk of the tree (slashes collapsed, `NotADir`, the parent and name
    of a missing leaf);
  * the fd list stays sorted and duplicate-free under `open`, `close` and `dup2`;
  * a file's offset moves by the number of bytes transferred.
* ramfs and exFAT: reading back returns what was written, zeros past a hole, and the data of the cluster
  that holds the offset.
* TTY: the ring never overwrites unread input, and `vt_read` returns exactly `length` bytes.

## 2. Plan

The modules are listed in build order, most important behaviour first.

1. **`Scheduler.tla`** (done). Task structs live in slab slots, and the task list is a sequence of
   slots. The module models round-robin `task_yield`, and `exit`, CPU exceptions, `kill`, `fork`, `waitpid`,
   `sched_yield`, and the loop of the kernel thread `kt-hw-init`. `MCScheduler.tla` instantiates it.
2. **`NvmeQueue.tla`** (done). It EXTENDS `Scheduler` and adds the I/O submission and completion
   rings with phase bits, the command-slot table, the controller (fetch, complete in any order, post with a
   phase), and the ISR. `nvme_readpage` becomes a task operation that submits, busy-yields in
   `await_command_finish`, and then reads the completion status. This composes the scheduler with the driver.
3. **`Kmem.tla`** (done). `kpage_alloc` as a RECURSIVE first-fit scan, checked against a reference
   first-fit definition, with `kpage_free` and `kmem_used_pages`. The slab allocator is modelled only as the
   slot sets of `Scheduler` and `Files`.
4. **`AddressSpace.tla`** (done). `set_page_mapping`, `map_user_page`, `setup_userspace_memory` and
   `free_userspace_memory` on a radix tree with 2 entries per level, on top of `Kmem`, with the memory side of
   fork, exec, brk, exit and waitpid. Checked: every used frame has one owner.
5. `NvmeProbe.tla` (not started): the admin queue and the probe sequence run by `kt-hw-init`, which share the
   command table with I/O. Covers I/O issued before the probe finished.
6. **`Vfs.tla`, `Files.tla`, `FdMap.tla`** (done). `vfs_resolve` as a RECURSIVE operator over the tree the
   model builds, checked against a reference fold; `open`, `close`, `dup2`, `lseek`, `mkdir`, `fork`, `exit`
   and `waitpid` on the fd lists; `FdMap` is the abstract fd table they refine.
7. **`Ramfs.tla`** and **`Exfat.tla`** (done): the cluster arithmetic of read, write and set_size,
   checked against a reference. `Ramfs` is applied by `Files`' read, write, ftruncate and open; `Exfat`
   composes the mount, the root directory's load, the file's load and its reads and writes.
8. **`TtyInput.tla`** (done): the keyboard ISR producer and the `vt_read` consumers on the VT input rings.
   **`TtyOutput.tla`** (done): `vt_write`'s escape and cursor state machine and the repaint flags that keep
   the shared framebuffer in step with the active VT.
9. **`Shell.tla`** (done): the interactive loop of the shell, key by key, writing to tty1 through
   `TtyOutput`'s operators, checked against a reference line editor and against what tty1 shows;
   **`ShellParse.tla`** (done): `exec_shell_line`'s parser as RECURSIVE operators, checked against a
   one-pass lexer of the grammar its comments give; **`CStd.tla`** (done): the string comparisons and
   decimal conversions of `cstd.c`, checked in the same run against equality and decimal notation.
10. Abstract specifications:
   * `BlockIO.tla` (a request is served atomically), refined by `NvmeQueue` with the mapping "the request is
     served when its slot is freed";
   * `TaskSet.tla` (a set of live pids with states), refined by `Scheduler`;
   * `FdMap.tla` (done), refined by `Files`.

## 3. Modules and their correspondence to the code

### Scheduler.tla

Variables and the C state they stand for:

| Variable | C state |
|---|---|
| `allocated` | the used bits of `task_struct_allocator` |
| `pid`, `state`, `exitCode` | the fields of each slot, which stay stale after `slab_free`, as they do in C |
| `taskList` | `task_struct_lh` |
| `current` | `current_task_ts` |
| `pidCounter` | `pid_counter` |
| `pc` | where the task is suspended: in user mode, in the `waitpid` loop, or in the `kt-hw-init` loop |
| `waitSlot` | the `process` pointer the `waitpid` loop holds |
| `waitPid` | the pid argument of that `waitpid` |

Two ghost variables are not in the C code:

* `parent` restricts `waitpid` to the repository's own usage in the runs that ask for it;
* `termCode` records the exit code a task had when it became a zombie.

An action is one stretch of a task's kernel code that ends in `task_yield` or in a return to user mode.
`NextTask` follows `task_yield` exactly: it walks the circular list after the current task, considers the
current task last, and halts the CPU for good when no task is RUNNING. `Idle` models that halt loop.

### MCScheduler.tla

The model-checking wrapper. It uses 3 task slots and pids up to 5, so a slot is freed and reused by a later
`fork` within the bound. Exit codes are {0, 1}. The fault codes are 1 (divide error) and 128+11 (GPF and
page fault).

### NvmeQueue.tla

It EXTENDS `Scheduler`, so the tasks that issue I/O are the scheduler's tasks and run under the same
`task_yield`. Variables and the C state they stand for:

| Variable | C state |
|---|---|
| `command_statuses` | `command_statuses[]` of the controller |
| `iosq_tail`, `iosq_head`, `iocq_head`, `iocq_phase` | the fields of the same names in `struct nvme_device` |
| `sq` | which command id each submission entry carries (only the CID matters to the properties) |
| `cq` | each completion entry: `cid`, phase bit, `sqhd` |
| `sqDoorbell`, `cqDoorbell` | the last values written to the tail and head doorbell registers |
| `devSqHead`, `executing`, `devCqTail`, `devPhase` | the controller's internal state |
| `cmd`, `headSnap` | the locals `cid` and `iocq_head` that `nvme_readpage` holds across its yields |

The ghost variables `sqFetched` and `posted` record which submission entries the controller has fetched
and which completions it has posted but the ISR has not consumed.

`nvme_readpage` is split at its suspension points:

* `NvmeSqFullYield`: the SQ-full loop;
* `NvmeSubmit`: `start_command` and filling the entry;
* `NvmeDoorbell`: the tail doorbell write, with the `iocq_head` snapshot taken there;
* `NvmeAwaitYield` and `NvmeAwaitDone`: `await_command_finish`, then reading the status from
  `cq[headSnap]` and freeing the slot.

The other task operations of `Scheduler` stay available and leave the NVMe state unchanged. The controller
is the environment. `DeviceFetch` fetches the entries up to the doorbell. `DeviceComplete(id)` completes
any executing command, in any order, posting with the current phase and flipping the phase on wrap.

`nvme_handle_interrupt` is one atomic action, enabled when the entry at `iocq_head` has the new phase. It
drains the ring through the RECURSIVE operator `IocqDrain`, copies `sqhd` into `iosq_head`, and writes the
head doorbell. IRQ gates clear IF, so the ISR is atomic. It may fire between any two task steps, as the
kernel's spec says. The `switch_to_task` assembly that decides when IF is set again is not under `src/`.

### MCNvmeQueue.tla

3 task slots, and pids up to 3 (or 4 in the `nvme` run, so that `fork` adds an I/O task). Exit and
faults are disabled: they only take a task out of the I/O loop, which `kill` already does, and they
multiply the state space. The ring has 2 entries in every pass run. With 2 entries the ring is full after
one submission, so the SQ-full loop, the wrap of every index and the phase flip all occur. `MaxCommands`
is 3 in the `nvme` run. That is more than the tasks can hold at once even with the slot `kill` leaks,
so table exhaustion does not stop the run. Exhaustion has its own run.

### Kmem.tla

The page allocator of `mm/kmem.c` as operators over a memory record `[status, used, panic]`, which the
modules that use it thread through the allocations of one kernel routine. `kpage_alloc` is the RECURSIVE
scan `KpageScan`: a run counter that resets on a non-free page, returning the first index of the first run
of `n` free pages. Where the C code panics with "Out of physical memory", the record's `panic` is set.
`kpage_free` marks `n` pages FREE from the given one and lowers `kmem_used_pages` by `n`, with no check of
what the pages were. `FirstFitRef` is the reference the scan is checked against: the least index whose next
`n` pages are all free.

### AddressSpace.tla

It EXTENDS `Kmem`. Variables: the page statuses and `kmem_used_pages`, each slot's state, `kstack` and
`pml4` (the pages `setup_kernelspace_memory` allocates), `tables` (the PTPD, PD and PT pages, keyed by level
and the address bits above the slice they cover), `leaves` (virtual page to frame and a data tag that
records which user address the frame's first unit holds), `ranges` (`memory_ranges_lh`) and `halted`
(a panic stopped the machine). A page has `Fanout` entries per level, so `set_page_mapping` allocates
missing levels lazily just as the C code does with 512. Actions: `Fork` (new kernel space, copy of every
range page by page from `memory_range->start`), `Exec` (free the user space, load the ELF ranges from
`p_vaddr` and `p_memsz`, or fail with the old space kept), `Brk` (grow the heap range page by page),
`Exit`, `Reap` (`free_userspace_memory`, `free_kernelspace_memory`, `free_task`) and the kernel loop.
Every allocation may reach the panic, after which only `Halt` stutters. `MCAddressSpace.tla` gives three
ELF images: one page-aligned, one whose data segment starts inside a page, and one whose two segments
share a page.

### Vfs.tla

The namespace of `fs/vfs.c`. Variables: `itype` (inode type, `"NONE"` for a free slot of
`inode_allocator`, `"UNINITIALISED"` for a slot allocated and never filled in), `isb` (the superblock,
ramfs or sysfs) and `dentries` (each directory's ordered dentry list, each entry with its mounted inode).
`VfsInit` is the tree `vfs_init`, `tty_init` and `sysfs_init` build that the operations tell apart: `/dev`,
`/dev/tty1`, `/sys` with the sysfs root mounted on it, and `/sys/meminfo`. A path is a sequence of tokens,
`"/"` or an atomic name, never two names in a row; `strklcmp` compares names exactly, so a name needs no
characters. `ResolveFrom` is one pass of the `while (*buf != 0)` loop of `vfs_resolve` per call: the
directory check, the slash skip, the break on an empty fragment, the dentry search and the step into the
mounted inode. `vfs_mkdir` and `vfs_create` return the new state and the inode they return. `RefResolve`
is the reference: a `FoldLeft` over the path's components with the trailing-slash rules.

### Ramfs.tla

The file data of `fs/ramfs.c`, as operators over a record `[size, clusters]` (a `struct ramfs_inode`);
`Vfs` holds one per inode in `ramfsInode`, `RamfsInodeNew` (size 0, no clusters, since the slab page is
zeroed) from `RamfsCreate`. A cluster is a function from `1..RAMFS_CLUSTER_CAPACITY` to bytes.
`ramfs_set_size` is the do-while: it keeps `max(1, ceil(size/C))` clusters, appends zeroed ones, and
leaves the bytes of the kept ones as they were. `ramfs_write` grows the file first and then overlays the
written byte on `[offset, offset+len)`. `ramfs_read` is the loop with `read_end = min(offset+len, size)`:
it visits the clusters that start below `read_end` and end after `offset`, and copies
`[max(offset, start), min(read_end, end))` from each; a range whose end lies below its start is the
negative `size_t` length of `ramfs.c:111` and is reported as `overrun`. `Content` (the first `size` bytes
of the clusters) and `RefRead` (the bytes from the offset up to the end of the file) are the reference.

### Files.tla and FdMap.tla

`Files` EXTENDS `Vfs` and adds `taskState`, `files` (each task's `files_lh` as a sequence of
`[fd, inode, offset]` records), `fileObjects` (the live objects of `file_allocator`) and `lastCall` (task,
syscall, path and return value of the last syscall, for properties about return values). `fd` is a
`uint32_t`; the model keeps its wrap at `FdMod = 2^FdBits`. One action per syscall: `Open` (the resolve
outcomes and their error codes, `O_CREAT` through `vfs_create`, the new file at the tail with the tail's fd
plus one, then `O_TRUNCATE` through `vfs_ftruncate`, whose error is returned after the file is linked),
`Close`, `Mkdir`, `Lseek`, `Ftruncate` (`vfs_ftruncate`: `ramfs_set_size` on a ramfs file, -1
otherwise), `Write` (`vfs_write`: ramfs through `ramfs_write`, a device accepts every byte, sysfs
refuses; the offset moves by the count), `Read` (`vfs_read`: ramfs through `ramfs_read`, which moves the
offset itself; sysfs returns its whole text at offset 0 and nothing after; a tty read blocks in `vt_read`
and is left out; an overrun page-faults and `cpu_exception_handler` turns the caller into a zombie), `Dup2` (close of `newfd` if open, then a copy inserted at
`filp_insert_point_find`), `Fork` (a copy of the list), `Exit` and `Reap` (the slot becomes free; the
files stay allocated, as in `free_task`). getdents and mount are not actions yet. Lengths, truncate
sizes and bytes are small constant sets, and `MaxOffset` bounds the offset a write may reach.

`FdMap` is the abstract fd table of spec.md: per task, a function from fd to `[inode, offset]`, changed
only by open (an unused fd at offset 0), close, dup2, lseek (which also covers the offset moves of read and
write), fork (copy into an empty table) and release.
`Files` instantiates it with the mapping "a live task's table is what `filp_find` returns for each fd in
its list; a free slot has none". Its actions take the tables before and after as parameters, so TLC
evaluates the refinement step by step without enumerating tables.

### MCFiles.tla

Two task slots, the boot inodes plus two free slots, one user name `"a"`, fds 0 and 1 as arguments,
`FdBits = 2` and two file objects. `MCFdPaths` reaches a new ramfs file, a file under it, a sysfs file and a
device. `MCResolvePaths` is every token sequence of length at most 4 with no adjacent names (155 paths),
checked against the reference in every reachable tree, including those with `/a`, `/a/a` and
`/dev/a`. `MCView` drops `lastCall` where no property reads it. `MCPaths` adds `/sys/a` and `/dev/tty1/`
for the findings below that have no run of their own. `MCFiles.cfg` sets `Lengths` and `TruncateSizes`
empty, so the namespace run does not multiply its states by file contents.

`MCFilesData.cfg` checks file data on its own: one fd argument, the paths `/a`, `/sys/meminfo` and
`/dev/tty1`, lengths 1 and 2, truncate size 1, one byte value, `MaxOffset = 3` and clusters of 2 bytes,
so files reach two clusters and reads start, end and cross cluster boundaries. With `C = 2` the overrun
cannot happen (an offset past the size always lies past the last cluster visited), so
`RamfsReadMatchesContent` is a statement about the arithmetic; `MCFilesOverrun.cfg` takes `C = 3`, offset
2 and length 1, the smallest case where it does.

### TtyInput.tla

The input side of `drivers/tty.c` and `drivers/keyboard.c`. Variables: `tty` (per VT: `input_rb`,
`input_rb_head_idx`, `input_rb_tail_idx`), `depressed_mod_keys`, `active_vt_device`, `reader` (the
`vt_read` each task is blocked in, with the bytes copied so far), `scanned` (the bound on scancodes) and two
history variables: `stored` (per VT, each key event sent to it with the bytes the ring kept) and `taken`
(per VT, the bytes readers took, in order). `KeyboardInterrupt` is `hw_interrupt_handler` on IRQ 1: a
`FoldLeft` of `KeyboardScancode` (one pass of `keyboard_rb_fill`'s do-while: modifier make and break codes,
other break codes ignored, Ctrl+1..3 switching the VT, a keymap lookup and `vt_update_input`) over the burst
of scancodes the controller holds. `vt_update_input` is a `FoldLeft` of `vt_append_input_character`, whose
full test drops each byte on its own. `ReadStart` is the read syscall reaching `vt_read`; `ReadStep` is one
pass of its outer loop: after `task_yield`, copy from head until the ring is empty or, checked after each
copy, `buf` reaches `buffer + length`. Bytes are strings (`"ESC"` for 0x1B, `"DEL"` for 0xFF); the keymap
holds the rows of the scancodes the model sends. The ISR and a reader's pass are each atomic: interrupt
gates clear IF, and a task in a syscall runs with IF clear between yields. The output side is `TtyOutput.tla`.

### MCTtyInput.tla

A ring of 4 bytes (3 usable, so one arrow key fills it and the full test is reached), the three VTs, two
readers with lengths 1 and 2, and 8 scancodes: shift down and up, ctrl down, '2' (switch to tty2 under
ctrl), 'a' and its break code, caps lock (symbol 0) and the up arrow. An interrupt finds one or two
scancodes, and a behaviour has at most 4, enough to wrap the ring, fill it, and switch VTs between keys.
Deadlock is not checked: with the scancodes used up, readers stay blocked in `vt_read`, as the kernel
does when nobody types.

### TtyOutput.tla

The output side of `drivers/tty.c`. Variables: `vt` (per VT: `terminal_buffer`, `cursor_row`,
`cursor_column`, `escape_state` and the set of cells whose `repaint_flags` bit is set), `active`
(`active_vt_device`), `screen` (per cell of the one framebuffer: the glyph drawn, whether the cursor box is
drawn, and which VT's background colour it has, since `vt_background_color` depends on `device_number`)
and `writes` (a bound). `vt_set_char`, `vt_set_cursor` and `vt_shift_rows` are operators on one VT's record,
flagging the cells they touch as the code does; `Csi` is the ESC [ final byte (A/B/C/D with their edge
guards, K, H, J and anything else), `Plain` a byte outside an escape (ESC, LF, CR, BS, or a character that is
stored and advances the cursor, wrapping and scrolling), and `WriteByte` one pass of `vt_write`'s loop.
`VtWrite` is `vt_write` from the write syscall or `printk`: a `FoldLeft` of `WriteByte`, then
`vt_repaint_terminal` (`Painted`, `Cleared`) if the VT is active. `WriteFault` is a write whose user buffer
faults after `k` bytes: the loop stops without a repaint, and `cpu_exception_handler` prints its message to
tty1 through `vt_write`, in whatever escape state tty1 is in. `set_active_vt` (Ctrl+1..3 in the keyboard
ISR) flags every cell and repaints the whole terminal. Each action is atomic: the syscall and keyboard
gates are interrupt gates (`idt.c:126-131`), so the keyboard ISR cannot split a `vt_write`; only the page
fault, a trap taken inside it, can. Bytes are strings (`"ESC"`, `"LF"`, `"CR"`, `"BS"`, `"NUL"` for a zeroed
cell); non-printable bytes draw as a space.

### MCTtyOutput.tla

Two VTs of 2 x 2 cells (so wrap at the last column and scroll at the last row both happen in a few
bytes), text `"x"`, and writes of one text or control byte, each whole CSI sequence (A, B, C, D, K, H, J and
an unknown final), `ESC Z`, and `ESC` or `[` alone, so that an escape state outlives a write and meets the
next write or a fault message. A fault may cut any write after any of its bytes; the fault message is
`"x" LF`. At most 4 writes per behaviour (about 82,000 states in 30 seconds; 5 writes take 3.5 minutes);
VT switches are unbounded. Deadlock is checked: a VT switch is always possible.

### Shell.tla

The interactive half of `main` in `userspace/src/shell.c`, composed with the tty output it drives.
`T == INSTANCE TtyOutput` gives the VT operators; the shell's terminal is one VT record `tty`, tty1 taken
as the active VT, so `Put` is a `puts`/`write(1, ...)`: `WriteAll` of the bytes, then the repaint that
clears the flags. Variables: `line` (`keyboard_command_buffer` up to `keyboard_command_length`), `prev`
(the previous buffer), `off` (`cursor_end_offset`), `pc` (`"key"`, `"arrow"` after an ESC while the two
code bytes are read, `"smashed"` once a store falls outside the 400-byte buffer), `keys` (a bound on keys
read), and two auxiliary variables: `promptCol`, the column the current prompt was printed at, and `ref`,
a reference line editor (`EdInsert`, `EdErase`, `EdLeft`, `EdRight`, `EdRecall`, `EdSubmit`: a line, the
previous line and a cursor position from the left, with the usual editing meaning) that each action
drives with the operation the key stands for. One action per branch of the read loop: `ReadEsc`
(0x1B, then the read of two bytes), `ReadArrow` dispatching `[A` to `ArrowUp` (swap with the previous
line, offset reset, redraw), `[C` to `ArrowRight` (the whole branch: one position right and a redraw when `cursor_end_offset > 0`, nothing otherwise), `[D` to `ArrowLeft` (guarded as the code is) and
anything else to `ArrowIgnored`; `Erase` (0xFF, the shift loop as `RemoveAt`, always a redraw); `Enter`
(echo LF, remember the line, `exec_shell_line` abstracted to one of the byte sequences `Outputs`, clear the
length but not the offset, print the prompt); `InsertKey` (`cursor_end_offset > 0`: the shift loop as
`InsertAt`, redraw) and `AppendKey` (store, echo). `StoreOutside` is the same two branches when the index
they store at is outside the buffer: past `KEYBOARD_COMMAND_BUFFER_LENGTH` (the `CAP` constant; the code
has no check) or below index 0 (an offset larger than the line). `rewrite_command_line` is the code's
`\r ESC [ K`, prompt, buffer, and one `ESC [ D` per offset. Each step is atomic with respect to the
terminal: the shell is the only writer to tty1 in the model, and `vt_write` runs with interrupts off.

### ShellParse.tla

The command-line parser of `shell.c` as pure operators, one per function: `parse_zms`,
`parse_redirect_operator`, `parse_unquoted_string`, `parse_single_quoted_string`, `parse_word_fragment`,
`parse_word`, `parse_redirect`, `parse_simple_command_element` and `parse_shell_stmt`. Each takes the
line `s`, the start offset and the end offset (`start + length`), 0-based as the pointers are; a
`struct pair` is a record with its type, start and end and its children, and NULL is the record `Null`.
The code's loops are RECURSIVE operators (`SkipSpaces`, `SkipOrdinary`, `Fragments`, `Elements`).
Each function's tests of a child's result are separate operators that take the result as an argument
(`OrElse`, `Wrap`, `FragmentsFrom`, `WordOf`, `RedirectAfter`, `RedirectOf`, `ElementsFrom`, `StmtOf`,
`Decide`), so each sub-parse appears once in the text; TLC's coverage statistics otherwise copy a
sub-parse into every place its result is used. The
code reads `*cur` before comparing `cur` with the end in `parse_zms` and `parse_unquoted_string`; the
comparison decides either way, so the model tests the bound first. `expand_word` copies each fragment into
a buffer from `malloc` and writes the terminator one byte past the text (`out_buffer[exec_buffer_length +
1]`), leaving the byte at the text's end as it was. `Fresh` is that buffer: `malloc` in `persistos.c` is a
bump allocator that never reuses memory, and `map_user_page` zeroes every page, so the byte is 0 and the
words come out terminated. `exec_shell_line` is reduced to its decision before `fork`: a syntax error when
`parse_shell_stmt` stops before the end, nothing when no word was found, or the argv and the redirects
(fd 0 for `<`, 1 for `>`, and the target path).

`RefParse` reads the grammar in the code's comments independently: a single pass with a quote flag
collects words (maximal runs of ordinary characters and quoted text) and `<`/`>` tokens; a line is well
formed when no quote is left open, it neither starts nor ends with a space (the grammar has no leading
or trailing `zms`), and every operator is followed by a word, its target. `ParserAgrees` compares the two
on `Lines`, every line of up to `MaxLine` bytes over the letters, space, quote, `<` and `>`. `Shell`
includes the module: `Enter` writes nothing for a line without a word, and the property
`ParseMatchesReference` asks for `ParserAgrees` in the initial state (the parser does not depend on the
state).

### MCShell.tla

Terminals 6 columns by 2 rows, so a prompt plus a line of 3 fills a row and command output scrolls;
text `"x"` only (the line's content is a sequence, so one letter tells positions apart through the
lengths and the reference; `{"x", "y"}` doubles the states for nothing new); `CAP = 3` stands for the
400-byte buffer, so overflow is reachable; `exec_shell_line` writes nothing, `x LF`, or `x` without a
newline (so the next prompt starts at column 1); at most 7 keys, enough for a key, an ESC sequence, Enter
and another key. About 620,000 states in a minute and a half. For the parser, `Letters = {"x", "y"}`
and `MaxLine = 6`: 55,987 lines, which include every way of joining fragments, operators with and
without spaces, empty and unterminated quotes, and leading, trailing and doubled spaces. Deadlock is not checked: a behaviour stops at the key
bound or at the first store outside the buffer. For `CStd`, `Words` (every string of up to three
bytes over `a` and `b`: 15 names, so every pair of equal, prefix and differing names) and `DecValues`
(0, each power of ten up to 10^9 with its predecessor where it fits, 4096, 65535, 100000 and 2^31 - 1)
are definitions of `CStd`.

### CStd.tla

The routines of `cstd.c` that the kernel and the programs rely on for equality of names and for
numbers in text. A buffer is a sequence of byte values; `At(b, k)` is the byte at `b + k`. Each loop is
a RECURSIVE operator whose last argument is the loop variable (`StrlenFrom`, `StrcmpFrom`,
`StrncmpFrom`, `ParseDecFrom`), and it reads bytes in the order of the C condition: `strncmp` reads
`b1[n]` and `b2[n]` before it tests `i < n`, so the inputs carry the byte after the fragment (`/` or
NUL), as the paths of `vfs_resolve` do. The `int8_t` results are the byte difference truncated to
8 bits (`Int8`). `strklcmp` calls `strlen` and `strncmp` as the code does and returns 1 when one string
merely starts with the other (`Longer`). `sprintf_dec` is split along its loops: `DecDigit` and
`FirstNonzero` for the digit loop, `DecBuffer` for the padding loop, `DecLength` for the choice of how
many bytes to copy, and `DecResult` for the `memset` and `memcpy` into `result`. `parse_n_dec` stops
at `n` bytes or at the first byte that is not a digit and returns the count as `uint8_t`; its
`uint64_t` accumulator is not reduced modulo 2^64, because TLC's integers end at 2^31 - 1 and every
number checked is below that.

`Shell` includes the module. `NamesCompareExactly` asks that `strklcmp` (with `/` or NUL after the
fragment) and `strcmp` give 0 exactly for equal names; `DecimalRoundTrip` asks that `sprintf_dec(v, 0,
0)` has `DecimalLength(v)` digits and no leading zero, that `parse_n_dec` over the whole text returns
that count and `v`, and, for `v` below 100000, that `sprintf_dec(v, ' ', 5)` (ps) is the same digits
right-aligned in five bytes. Both are checked in the initial state, as `ParseMatchesReference` is.

### Exfat.tla

`fs/exfat.c` on one mounted volume. Variables: `fat` and `dir` (the volume: the FAT, and each heap
cluster's contents read as a page of directory entries), `mounted`, `root_load_needed` (the root's
`exfat_inode->load_needed`), `dentries` (the root's `dentry_lh`; per dentry the inode's type,
`exfat_start_lba`, `file_length`, `name[]`, `load_needed` and `file_clusters_lh`), `faults` (tasks killed
in the directory load), `stopped` (the kernel is stuck in it), `filp` (the open file's dentry and
`offset`) and the history variable `lastIo` (the last transfer and the device offsets it copied).
Directory entries are records with the fields the loop reads (`FileEntry`, `StreamEntry`, `NameEntry`,
`OtherEntry`, `EndEntry`); a name character is `"c"`, the NUL padding `NUL`.

* `exfat_mount` is the success path of the mount syscall: the root inode is hung on the mount point,
  to be loaded.
* `LookupRoot`, `LookupRootFault`, `LookupRootHang` are the three outcomes of `exfat_lookup` on the root
  when a path goes through the mount point: `exfat_load_dir_inode` (`LoadDirFrom`, a RECURSIVE walk of
  the directory's chain, each page a `FoldLeft` of `ParseEntry` over `PageEntries`) returns; or a stream
  entry with no file entry before it dereferences NULL and the page fault kills the task, with the
  dentries so far left on the list and `load_needed` still set; or the chain comes back to a cluster it
  has read and the loop never ends, with interrupts off.
* `Open(i)` opens a regular file of the root: `exfat_lookup` on its inode runs `exfat_load_file_inode`
  (`LoadFrom`, RECURSIVE: a cluster per 4096 bytes below `file_length`, following the FAT).
* `Read(len)` and `Write(len)` are `vfs_read` and `vfs_write` over `exfat_read` and `exfat_write`, each a
  `FoldLeft` of `TransferStep` over the cluster list; `vfs_write` adds the count to the offset a second
  time, as the code does. `Lseek(off)` sets the offset.

The bytes of the volume are abstracted to their device offsets, so a transfer is the sequence of device
offsets it copies. The reference definitions the properties use are the exFAT layout: `FileChain` (the
chain from the first cluster, one cluster per `ClusterBytes` of the length), `RootDirectory` (the root's
entries up to its end marker) and `RefDentry` (a file entry and the stream extension right after it).

### MCExfat.tla

A heap of three clusters (2-4) of two bytes, `PAGE` scaled to the cluster size as on a volume with
4096-byte clusters, two entries per directory page, `name[]` of three bytes and two characters per name
entry. `fat` is every function from the clusters to a next cluster, free, reserved, bad or end of chain
(7^3 tables), so chains that end early, are marked bad, loop, or share clusters all occur. The five
directory images give the root cluster: a file set split across two clusters; a long name (four
characters, more than `name[]` holds) and a subdirectory; a skipped entry before a file entry whose stream
and name are in the next cluster; an empty file; and a stream entry before any file entry. `Init` keeps
the images whose root chain, under that FAT, has only end markers after its first one, as exFAT requires.
Lengths 1 and 3 make transfers that end inside a cluster and cross one; offsets up to 5 reach past every
file's end. `MaxFaults = 1` bounds the retries of a faulting load. Deadlock is not checked: the kernel
really stops in a looping directory chain, and after the bounded retries nothing through the mount
point works.

## 4. Runs

| Run | Expect | What it checks |
|---|---|---|
| `sched` | pass | `TypeOK`; `TaskListConsistent`: the list holds exactly the allocated slots, in pid order, through fork, exit, kill and reaping; `StarvationFree`: a RUNNING task is eventually scheduled |
| `sched_double_wait` | violation | `WaitpidReapsItsTarget`: when `waitpid` returns, the slot it freed held the awaited pid as a zombie; broken when two tasks wait on the same pid (with only the parent waiting, as in `sched`, it restates `WaitpidReap`'s guard, so the pass run does not check it) |
| `nvme` | pass | `NvmeTypeOK`; `CommandIdUnique`: no two tasks hold one command id; `SqNeverOverfull`: the host never overwrites an entry the controller has not fetched; `CompletionConsumedOnce`: each step of the ISR consumes only posted, in-flight completions, each once; `IoEventuallyReturns`: a task that submitted I/O eventually gets back to user mode (about 3 minutes) |
| `nvme_status` | violation | `StatusOfOwnCommand`: the entry a task reads its status from carries its own command id |
| `tty` | pass | `TtyTypeOK`; `InputFifo`: for every VT, the bytes readers took followed by the ring's content are exactly the bytes the ISR stored, through wrap-around, a full ring, VT switches and two readers; `ReadReturnsOnceArrived`: once a reader's copied bytes and the bytes waiting in its VT's ring reach its length, the read eventually returns, unless another task reads the same VT (its mutant returns only when more than the missing bytes wait) (about 3 minutes) |
| `tty_output` | pass | `TtyOutTypeOK` (the cursor stays on the terminal); `ScreenStaleOnlyIfFlagged`: every framebuffer cell that differs from what `vt_repaint_char` would draw for the active VT now carries a repaint flag, through writes to either VT, switches, and writes cut short by a fault with the handler's `printk` |
| `mem` | pass | `ASTypeOK`; `UsedPagesCounted`: `kmem_used_pages` equals the number of USED pages; `FramesOwnedOnce`: every USED frame is the kernel stack, PML4, table page or leaf frame of exactly one live task; `KpageScanIsFirstFit`: the scan agrees with the first-fit reference in every reachable state, for every run length |
| `exfat` | pass | `ExfatTypeOK`; `DirMatchesEntries`: once loaded, the root's dentries are its file sets in order, each with the type, first cluster and length of its own stream extension; `LoadFollowsChain`: a loaded file's cluster list is its FAT chain with byte offsets `k * ClusterBytes`; `TransferStaysInFile`: every read and write touches only device offsets of the open file's clusters, at any offset and length |
| `files` | pass | `FilesTypeOK`; `FdsSortedUnique`: each live task's list is sorted by strictly increasing fd; `ResolveMatchesReference`: `vfs_resolve` agrees with `RefResolve` on all 155 paths in every tree the run builds; `FdMapRefined`: `Spec` implements `FdMap!ASpec` under the mapping above (about 2.5 minutes) |
| `files_data` | pass | `RamfsReadMatchesContent`: for every ramfs file in every reachable state, and every offset within it and length, `ramfs_read` returns exactly the bytes of `RefRead` without overrun, with reads, writes and ftruncates in two tasks (about 3 minutes). The type invariant, `FdsSortedUnique` and `FdMapRefined` are the `files` run's: here they would add nothing but frame conditions |
| `shell` | pass | `ShellTypeOK`: the buffers hold typed bytes and `cursor_end_offset` stays in `0 .. CAP` (its mutant drops the `cursor_end_offset > 0` test of `[C`, and the `uint16_t` wraps); `LineMatchesEditor`: while no store has left the buffer, the buffer, the previous line and (with the offset inside the line) the cursor agree with the reference editor after every key; `LineShown`: when the prompt and the line fit the row, tty1's row shows the prompt and the line from the prompt's column, blanks after it, and the cursor where the offset puts it; `ParseMatchesReference`: `exec_shell_line` decides every line of up to six bytes as `RefParse` does; `NamesCompareExactly`: `strklcmp` and `strcmp` return 0 exactly for equal names of up to three bytes; `DecimalRoundTrip`: `sprintf_dec` writes the decimal digits with no leading zero, right-aligned in ps's field of five, and `parse_n_dec` reads them back to the value |
| `ramfs_read_overrun` | violation | `ReadReturnsToCaller`: a `read` syscall returns to a running caller |

Every property of a pass run has a mutant in `PROJECT.json`. The mutant replaces a definition that
translates code with a plausible bug, and the run finds the property violated.

### Fairness

* **Weak fairness on each task's step.** A task that is scheduled runs until it yields.
* **Strong fairness on `sched_yield`.** This assumes every user program eventually makes a syscall. Without
  it, a task that keeps issuing I/O that completes at once starves the others. The kernel has no preemption,
  so this is an assumption about the programs, not something the kernel guarantees.
* **Weak fairness on `DeviceFetch`, on each `DeviceComplete(id)`, and on the ISR.** A controller serves
  every fetched command, and a pending interrupt is delivered.
* **Weak fairness on each reader's pass in `TtyInput`.** A task blocked in `vt_read` is RUNNING and
  yields in a loop; the round-robin scheduler runs it in turn (`StarvationFree` in the `sched` run).
  Fairness alone makes a reader take waiting input; `ReadReturnsOnceArrived` asks more: that the pass
  that sees the missing bytes stops at `buffer + length` and returns. Keys
  and read syscalls come from the user and get no fairness.
* **No fairness in `AddressSpace`, `Files`, `Exfat`, `TtyOutput` and `Shell`.** Their runs check invariants and the safety refinement
  `FdMapRefined`; nothing in them must eventually happen.

### Findings

* **Double wait.** Two tasks waiting on one pid: the first reaps the zombie and frees its slot. `fork`
  reuses the slot. The second waiter holds a stale pointer to it and reaps the new task when that task
  exits (`syscall.c:251`).
* **Exit code after kill.** `kill` of a zombie overwrites its exit code with 255, so `waitpid` reports 255
  and not the code the task exited with (`syscall.c:458`).
* **Status misattribution.** `nvme_readpage` reads its status from the completion entry at the `iocq_head`
  it saw at submit time. With several commands in flight, or completions out of order, that entry belongs
  to another command (`nvme.c:533`).
* **Command slot leak.** `kill` of a task waiting in `await_command_finish` never frees its command slot
  (`syscall.c:457`).
* **Unaligned fork copy.** `fork` copies each range page by page from `memory_range->start`, which
  `load_elf64` takes unmasked from `p_vaddr`. With a data segment that starts inside a page, the child's
  pages hold the parent's bytes shifted by the offset, and the range's last page is never mapped
  (`syscall.c:96`). This is `UserDataInPlace` in `AddressSpace.tla`, reproduced by `MCAddressSpace.cfg`
  with `NumPages = 34`, `Images <- MCUnalignedImages` and
  `UserDataInPlace` as its only INVARIANT: exec of the unaligned image, then fork.
* **Shell offset kept across Enter** (`CursorInLine`, `NoStackSmash`, `shell.c:512`). The newline branch
  sets `keyboard_command_length` to 0 but leaves `cursor_end_offset`. Type a key, press the left arrow,
  press Enter, type a key: the insert branch runs with an offset of 1 on an empty line, and its loop stores
  at `keyboard_command_buffer[-1]`, on the stack below the buffer. Reproduced by `MCShell.cfg` with
  `CursorInLine` (four keys) or `NoStackSmash` (five keys) as its only INVARIANT.
* **Shell line overflow** (`NoStackSmash`, `shell.c:526`). Neither the append nor the insert branch
  compares `keyboard_command_length` with `KEYBOARD_COMMAND_BUFFER_LENGTH`, so the 401st key of a line
  is stored past the buffer. With `CAP = 3` TLC also finds this, with four keys.
* **Shared page mapped twice.** `setup_userspace_memory` maps every page a range touches. When two segments
  share a page, the second mapping takes a new frame and overwrites the leaf, so the first frame stays USED
  with no owner, even after `waitpid` (`userspace.c:42`).
* **ramfs read past the end.** `ramfs_read` clamps `read_end` to the size but not the start. With an
  offset past the size inside the last cluster (`lseek` past the end, or an `ftruncate` after the offset
  was reached), `copied_offset_range_end - copied_offset_range_start` is negative, `memcpy` copies about
  2^64 bytes and page-faults, and the reading task becomes a zombie (`ramfs.c:111`). TLC: open with
  O_CREAT, lseek 2, ftruncate 1, read.
* **Files leak on reap.** `waitpid` frees user memory, kernel memory and the task struct but never walks
  `files_lh`, so every file a task held when it exited stays allocated in `file_allocator`
  (`scheduler.c:79`).
The bugs below have no run of their own, since the project keeps at most twelve runs. Each is stated as
a property in its module, and a copy of an existing configuration shows it violated. The exit code after
kill is `WaitpidReportsExitCode` in `Scheduler.tla`, reproduced by `MCScheduler.cfg` with
`WaitpidReportsExitCode` as its only PROPERTY (exit, kill, waitpid). The files leak on reap is
`FileObjectsOwned` in `Files.tla`, reproduced by `MCFiles.cfg` without the VIEW and with `FileObjectsOwned`
as its only INVARIANT (open, fork, exit, waitpid). The shared page is `FramesOwnedOnce` in
`AddressSpace.tla`, reproduced by `MCAddressSpace.cfg` with `Images <- MCSharedImages` and
`FramesOwnedOnce` as its only INVARIANT (exec of the image whose segments share a page). The command
slot leak is `CommandSlotOwned` in `NvmeQueue.tla`, reproduced by `MCNvmeQueue.cfg` with
`MaxPid <- MCMaxPid`, `MaxCommands = 2`, `CommandSlotOwned` as its only INVARIANT and no
PROPERTIES (a read, a kill of the blocked task, the completion).

* **exFAT read from the wrong cluster, or past the end** (`ReadMatchesContent`, `exfat.c:265`).
  `exfat_read` skips only clusters that start after the offset, so a read at offset 4096 or more starts in
  the first cluster, at offset % 4096. Past the end of the file, `file_length - offset` wraps in `size_t`
  and clamps nothing, so a read returns the stale bytes of the last cluster where it should return 0.
  Reproduced by `MCExfat.cfg` with `ReadMatchesContent` as its only INVARIANT.
* **exFAT write advances twice** (`WriteAdvancesOnce`, `vfs.c:173`). `exfat_write` adds each count to
  `filp->offset`, and `vfs_write` adds the total again, so consecutive writes leave holes. Reproduced by
  `MCExfat.cfg` with `WriteAdvancesOnce` as its only INVARIANT: one write.
* **exFAT names without a terminator** (`NameTerminated`, `exfat.c:143`). The name loop writes up to
  `name[DENTRY_MAX_NAME_LENGTH]`, the last byte of `name[]`, so a name of 64 characters or more has no
  NUL and `strklcmp` reads into the pointers after it. Reproduced by `MCExfat.cfg` with `NameTerminated`
  as its only INVARIANT: mount, then a path through the mount point of the long-name image.
* **exFAT assumes 4096-byte clusters** (`exfat.c:211`). The file load steps by 4096 per cluster and
  read and write clamp each transfer to the rest of a 4096-byte page. With `SectorsPerClusterExp = 0` in
  `MCExfat.cfg` (clusters half a page), `LoadFollowsChain` and `TransferStaysInFile` both fail.

* **Spin on exhaustion** (`IoEventuallyReturns`, `nvme.c:57`). Once every slot has leaked,
  `start_command` spins without yielding, because the `task_yield` in its loop is commented out. Every
  task stops. Reproduced by `MCNvmeQueue.cfg` with `MaxPid <- MCMaxPid`, `MaxCommands = 1`, no
  INVARIANTS, `IoEventuallyReturns` as its only PROPERTY and `CHECK_DEADLOCK FALSE`.
* **Arrow keys cut in half** (`KeysStoredWhole`, `tty.c:353`). `vt_update_input` appends the three bytes
  of an arrow key one at a time, and the full test of `vt_append_input_character` drops each on its own,
  though its comment speaks of dropping events. With two bytes of room the ring keeps `ESC [` and drops the
  final byte, so the shell sees an escape sequence that swallows the next key. Reproduced by
  `MCTtyInput.cfg` with `KeysStoredWhole` as its only INVARIANT and no PROPERTIES: '2', then the up arrow.
* **Read of length 0 on a tty** (`ReadWithinBuffer`, `tty.c:343`). `vt_read` tests
  `buf == buffer + length` only after storing a byte, so `read(fd, buf, 0)` on a tty never returns and
  copies every key that arrives past the end of the caller's buffer. Reproduced by `MCTtyInput.cfg` with
  `Lengths = {0, 1}`, `ReadWithinBuffer` as its only INVARIANT and no PROPERTIES: a key, the read, one pass.
* **Stale bytes after shrink and grow** (`RamfsTailZeroed`, `ramfs.c:172`). `ramfs_set_size` zeroes only
  the clusters it appends. Shrinking within a cluster keeps the old bytes past the new size, and a later
  grow by ftruncate or by a write past a hole exposes them where a reader expects zeros. Reproduced by
  `MCFilesData.cfg` with `RamfsTailZeroed` as its only INVARIANT: open with O_CREAT, write 1 byte, open
  with O_TRUNCATE.

Three more disagreements were found while writing `Files`. Each is stated as a property in `Files.tla`;
they have no run of their own, because the project keeps one run per question and these are one-step
counterexamples. Each is reproduced by a copy of `MCFiles.cfg` without the VIEW, with `Paths <- MCPaths`
and the one property as its only INVARIANT or PROPERTY:

* **open with O_TRUNCATE leaks its fd on error** (`OpenErrorKeepsFds`, `syscall.c:315`). `SYSCALL_OPEN`
  links the new file into `files_lh` before `vfs_ftruncate`. On a sysfs file `sysfs_set_size` returns -1, so
  `open("/sys/meminfo", O_TRUNCATE)` returns -1 and the caller has no fd to close, yet the file stays
  linked. TLC finds it in one step.
* **mkdir in sysfs reports success** (`MkdirSuccessCreates`, `vfs.c:55`). `vfs_mkdir` ignores the result of
  `create_dir_inode` and returns the slot it allocated, so `mkdir("/sys/a")` returns 0 while `/sys/a` does
  not exist; the inode slot is leaked uninitialised. One step.
* **fd wrap** (`FdsSortedUnique`, `syscall.c:310`). open numbers a new file with the tail's fd plus one in
  `uint32_t`. After `dup2(fd, 0xFFFFFFFF)` the next open gets fd 0, which duplicates an existing fd and
  leaves the list unsorted. Reproduced with `FdArgs = {0, 3}` and `FdBits = 2`: TLC finds two opens, a dup2
  onto 3, a close of fd 0 and an open, which numbers its file 0 after 3.
  The `files` run keeps its fd arguments below the wrap, so this property passes there.

## 5. Not modelled, and why

* Boot glue, GDT/IDT/PIC/PIT register setup, and port I/O: these are straight-line hardware setup with no
  state the kernel later depends on beyond what the models take as the initial state.
* The pixels of the TTY output: `TtyOutput` keeps a glyph, a cursor box and the painting VT per cell, and
  leaves out the font, the colours and `repaint_desktop`'s gradient (the desktop is overdrawn within the
  same `set_active_vt`). `terminal_init_2` runs once at boot; `printk_uint*` formatting is left out. What
  a fault message should look like after a write to tty1 that ended in ESC is not stated as a property:
  its first byte is consumed as escape input.
* `tar.c`, which runs once at boot, and `userspace/` apart from the shell and `cstd.c`: the system call
  ABI is the environment, modelled as nondeterministic user choices. In the shell, the output of a command is
  one of the byte sequences `Outputs`, and script mode is left out. After the parser, the `exit` builtin (whose exit code is uninitialised when no argument is
  given) and the child's work (`open` of each redirect target with `O_CREAT | O_TRUNCATE`, so that an
  input redirection `<` empties its file; `dup2`; `exec` without and with the `bin/` prefix) are not
  modelled; the kernel models cover those syscalls. Two shell behaviours are known and not stated as
  properties: a lone Esc key (which the keyboard driver passes as the byte 0x1B) makes the ESC branch swallow the next two keys (`shell.c:464`), and
  `rewrite_command_line` cannot redraw a prompt and line wider than the terminal, because `\r` returns only
  to the start of the row the cursor is on (`shell.c:432`); `LineShown` is stated for lines that fit.
* In `cstd.c`: `memmove` (no caller), `memcmp`, the hex `sprintf_uint64/32/16/8`, `strcpy` and `parse_oct`
  (tar, at boot) are not modelled. Two edges of the modelled routines are outside the checks: ps prints
  only the last five digits of a pid of 100000 or more (`sprintf_dec` with `max_digits` 5), and
  `parse_n_dec` wraps at 2^64, so `kill` with twenty or more digits signals the value modulo 2^64.
  A quoted empty argument (`kill ''`) parses as 0 digits, which equals its `strlen`, so `kill`, `sleep`
  and `truncate` take it as 0. `sprintf_dec` with a pad character and `max_digits` 0 copies nothing,
  although its comment says 0 means no maximum; no caller passes that pair.
* The text sysfs reads render from kernel state: a sysfs read is modelled by its offset rule only. The
  sysfs creation and resize errors are modelled, in `Vfs` and `Files`.
* exFAT subdirectories are parsed into dentries but never loaded, a second mount is not modelled, and
  the length in the stream entry is taken as its low 32 bits without modelling the cast. `/dev/zero`
  and `getdents` are not actions yet. `Files` leaves out tty reads, which
  block in `vt_read`; `TtyInput` models them on their own.
* The NVMe probe sequence and the admin queue, and partitions: planned, see section 2.
* The slab allocator's bitmaps: `Scheduler` and `Files` model slab slots as sets of free slots, which is
  what the properties tell apart.
* PCI enumeration: it feeds the NVMe driver its BAR at boot.
