------------------------------ MODULE Scheduler ------------------------------
(***************************************************************************)
(* The task lifecycle and the cooperative scheduler of persistos64:        *)
(* task_yield / next_task_struct / free_task / task_struct_find           *)
(* (kernel/scheduler.c), the task syscalls exit, sched_yield, fork,       *)
(* waitpid and kill (kernel/syscall.c), the CPU-exception policy          *)
(* (arch/idt.c) and the loop of the kernel thread kt-hw-init              *)
(* (kernel/main.c).                                                       *)
(*                                                                         *)
(* A task_struct lives in a slot of the task_struct slab allocator.       *)
(* slab_free only sets the free bit, so pid, state and exit code of a     *)
(* freed slot keep their last values, and a later fork reuses the lowest  *)
(* free slot.  One action is one stretch of a task's kernel code between  *)
(* two suspension points (task_yield or the return to user mode).         *)
(***************************************************************************)
EXTENDS Naturals, Sequences, SequencesExt, FiniteSets

CONSTANTS
    Slots,           \* slots of task_struct_allocator (one slab page)
    MaxPid,          \* bound on pid_counter: fork is disabled beyond it
    ExitCodes,       \* exit(code) arguments the user programs pass
    FaultCodes,      \* exit codes of the CPU exceptions user programs raise
    ParentWaitsOnly  \* TRUE: a task waits only on its own child, and
                     \* no two tasks wait on one pid (the shell's usage)

ASSUME /\ Slots \subseteq Nat \ {0} /\ {1, 2} \subseteq Slots
       /\ MaxPid \in Nat /\ MaxPid >= 2
       /\ ExitCodes \subseteq 0..255
       /\ FaultCodes \subseteq {1, 128 + 11}
       /\ ParentWaitsOnly \in BOOLEAN

VARIABLES
    allocated,   \* slots whose bit is clear in the slab bitmap
    pid,         \* task_struct.pid of each slot
    state,       \* task_struct.task_state: "Running", "Zombie", "None"
    exitCode,    \* task_struct.exit_code (uint8_t)
    taskList,    \* task_struct_lh as a sequence of slots
    current,     \* current_task_ts
    pidCounter,  \* pid_counter
    pc,          \* where each task is suspended
    waitSlot,    \* the task_struct pointer held by a waitpid loop (0: none)
    waitPid,     \* the pid argument of that waitpid
    parent,      \* ghost: pid of the task that forked the slot's task
    termCode     \* ghost: exit code the task had when it became a zombie

schedVars == <<allocated, pid, state, exitCode, taskList, current,
               pidCounter, pc, waitSlot, waitPid, parent, termCode>>

\* TS_RUNNING, TS_ZOMBIE, and the zero bytes of a never-used slab slot.
TaskStates == {"Running", "Zombie", "None"}

\* "user": in user mode or at the syscall boundary; "waitpid": inside the
\* loop of SYSCALL_WAITPID; "kloop": inside kt_hw_init_main's yield loop.
SchedPCs == {"user", "waitpid", "kloop"}

\* Mutant: the -1 of kill kept as a signed value (exit_code not uint8_t).
KillCodeSigned == -1

\* exit_code written by kill (-1 stored in a uint8_t).
KillCode == 255

-----------------------------------------------------------------------------
(* Helpers translated from kernel/scheduler.c                              *)

\* task_struct_find(pid): first task of task_struct_lh with that pid, 0 if none.
task_struct_find(p) ==
    LET i == SelectInSeq(taskList, LAMBDA s : pid[s] = p)
    IN  IF i = 0 THEN 0 ELSE taskList[i]

\* Mutant: the walk starts at the list head instead of after the current task.
YieldOrderFromHead(c, list) == list

\* The order in which task_yield visits tasks: next_task_struct from the
\* current task, wrapping at the list head, with the current task last.
YieldOrder(c, list) ==
    LET i == SelectInSeq(list, LAMBDA s : s = c)
    IN  SubSeq(list, i + 1, Len(list)) \o SubSeq(list, 1, i)

\* task_yield: the first RUNNING task in that order.  When there is none,
\* the loop halts the CPU forever and current_task_ts keeps its value.
NextTask(c, st, list) ==
    LET order == YieldOrder(c, list)
        k     == SelectInSeq(order, LAMBDA s : st[s] = "Running")
    IN  IF k = 0 THEN c ELSE order[k]

\* Mutant: the new node is linked at the head of the list (list_add).
ListAddAtHead(list, e) == <<e>> \o list

\* list_add_tail(new_entry, head) on a list kept as a sequence.
list_add_tail(list, e) == Append(list, e)

\* slab_try_alloc on a single page: the lowest free slot.
SlabAllocSlot == Min(Slots \ allocated)

\* The current task is the one executing kernel or user code.
Runs(c) == current = c /\ state[c] = "Running"

\* Task c turns into a zombie with the given exit code, then task_yield.
Terminate(c, code) ==
    /\ state' = [state EXCEPT ![c] = "Zombie"]
    /\ exitCode' = [exitCode EXCEPT ![c] = code]
    /\ termCode' = [termCode EXCEPT ![c] = code]
    /\ current' = NextTask(c, state', taskList)

-----------------------------------------------------------------------------
(* Actions                                                                 *)

\* SYSCALL_SCHED_YIELD.
SchedYield(c) ==
    /\ Runs(c) /\ pc[c] = "user"
    /\ current' = NextTask(c, state, taskList)
    /\ UNCHANGED <<allocated, pid, state, exitCode, taskList, pidCounter,
                   pc, waitSlot, waitPid, parent, termCode>>

\* SYSCALL_EXIT: zombie with exit_code = arg3 (uint8_t), then task_yield.
Exit(c) ==
    /\ Runs(c) /\ pc[c] = "user"
    /\ \E code \in ExitCodes : Terminate(c, code)
    /\ UNCHANGED <<allocated, pid, taskList, pidCounter, pc, waitSlot,
                   waitPid, parent>>

\* cpu_exception_handler: divide error and page fault (exit code 1) or
\* general protection fault (128 + SIGSEGV) kill the current task.
CpuException(c) ==
    /\ Runs(c) /\ pc[c] = "user"
    /\ \E code \in FaultCodes : Terminate(c, code)
    /\ UNCHANGED <<allocated, pid, taskList, pidCounter, pc, waitSlot,
                   waitPid, parent>>

\* SYSCALL_KILL on an existing pid: the target becomes a zombie with
\* exit_code -1 whatever its state, then the caller yields.  A pid that is
\* not found returns -1 and changes nothing.
Kill(c) ==
    /\ Runs(c) /\ pc[c] = "user"
    /\ \E p \in 1..(pidCounter - 1) :
         LET t == task_struct_find(p) IN
         /\ t # 0
         /\ state' = [state EXCEPT ![t] = "Zombie"]
         /\ exitCode' = [exitCode EXCEPT ![t] = KillCode]
         /\ termCode' = IF state[t] = "Running"
                           THEN [termCode EXCEPT ![t] = KillCode]
                           ELSE termCode
         /\ current' = NextTask(c, state', taskList)
    /\ UNCHANGED <<allocated, pid, taskList, pidCounter, pc, waitSlot,
                   waitPid, parent>>

\* SYSCALL_FORK: a new task_struct from the slab with pid pid_counter++,
\* the caller's state, appended to task_struct_lh.  The child resumes in
\* user mode (return value 0); the caller returns without yielding.
\* exit_code is not initialised and keeps the slot's old value.
Fork(c) ==
    /\ Runs(c) /\ pc[c] = "user"
    /\ allocated # Slots
    /\ pidCounter <= MaxPid
    /\ LET s == SlabAllocSlot IN
       /\ allocated' = allocated \cup {s}
       /\ pid' = [pid EXCEPT ![s] = pidCounter]
       /\ state' = [state EXCEPT ![s] = state[c]]
       /\ taskList' = list_add_tail(taskList, s)
       /\ pc' = [pc EXCEPT ![s] = "user"]
       /\ waitSlot' = [waitSlot EXCEPT ![s] = 0]
       /\ parent' = [parent EXCEPT ![s] = pid[c]]
    /\ pidCounter' = pidCounter + 1
    /\ UNCHANGED <<exitCode, current, waitPid, termCode>>

\* SYSCALL_WAITPID, the list scan: find the task with pid arg3 and enter
\* the wait loop holding a pointer to its task_struct.  A pid not in the
\* list returns -1 and changes nothing.
WaitpidStart(c) ==
    /\ Runs(c) /\ pc[c] = "user"
    /\ \E p \in 1..(pidCounter - 1) :
         LET t == task_struct_find(p) IN
         /\ t # 0
         /\ ParentWaitsOnly =>
              /\ parent[t] = pid[c]
              /\ \A o \in allocated :
                   (state[o] = "Running" /\ pc[o] = "waitpid") => waitPid[o] # p
         /\ pc' = [pc EXCEPT ![c] = "waitpid"]
         /\ waitSlot' = [waitSlot EXCEPT ![c] = t]
         /\ waitPid' = [waitPid EXCEPT ![c] = p]
    /\ UNCHANGED <<allocated, pid, state, exitCode, taskList, current,
                   pidCounter, parent, termCode>>

\* The wait loop finds the target not yet a zombie: task_yield.
WaitpidYield(c) ==
    /\ Runs(c) /\ pc[c] = "waitpid"
    /\ state[waitSlot[c]] # "Zombie"
    /\ current' = NextTask(c, state, taskList)
    /\ UNCHANGED <<allocated, pid, state, exitCode, taskList, pidCounter,
                   pc, waitSlot, waitPid, parent, termCode>>

\* The wait loop finds the target a zombie: free_userspace_memory,
\* free_kernelspace_memory and free_task (list_del + slab_free) on the
\* pointer it holds, report exit_code and return arg3.  When the pointer
\* is stale, list_del rewrites the links of the node's old neighbours;
\* the model leaves such a list as it is (WaitpidReapsItsTarget flags the
\* step itself).
WaitpidReap(c) ==
    /\ Runs(c) /\ pc[c] = "waitpid"
    /\ state[waitSlot[c]] = "Zombie"
    /\ allocated' = allocated \ {waitSlot[c]}
    /\ taskList' = Remove(taskList, waitSlot[c])
    /\ pc' = [pc EXCEPT ![c] = "user"]
    /\ waitSlot' = [waitSlot EXCEPT ![c] = 0]
    /\ UNCHANGED <<pid, state, exitCode, current, pidCounter, waitPid,
                   parent, termCode>>

\* kt_hw_init_main after the NVMe probe: while (true) task_yield();
KernelLoop(c) ==
    /\ Runs(c) /\ pc[c] = "kloop"
    /\ current' = NextTask(c, state, taskList)
    /\ UNCHANGED <<allocated, pid, state, exitCode, taskList, pidCounter,
                   pc, waitSlot, waitPid, parent, termCode>>

\* task_yield with no RUNNING task: halt_until_any_interrupt forever.
Idle ==
    /\ \A s \in allocated : state[s] # "Running"
    /\ UNCHANGED schedVars

-----------------------------------------------------------------------------
(* Specification                                                           *)

\* kmain: init (pid 1) in slot 1 and kt-hw-init (pid 2) in slot 2,
\* pid_counter = 3, and switch_to_task(init).
SchedInit ==
    /\ allocated = {1, 2}
    /\ pid = [s \in Slots |-> IF s \in {1, 2} THEN s ELSE 0]
    /\ state = [s \in Slots |-> IF s \in {1, 2} THEN "Running" ELSE "None"]
    /\ exitCode = [s \in Slots |-> 0]
    /\ taskList = <<1, 2>>
    /\ current = 1
    /\ pidCounter = 3
    /\ pc = [s \in Slots |-> IF s = 2 THEN "kloop" ELSE "user"]
    /\ waitSlot = [s \in Slots |-> 0]
    /\ waitPid = [s \in Slots |-> 0]
    /\ parent = [s \in Slots |-> 0]
    /\ termCode = [s \in Slots |-> 0]

\* Every step of task c, from wherever it is suspended.
TaskStep(c) ==
    \/ SchedYield(c) \/ Exit(c) \/ CpuException(c) \/ Kill(c) \/ Fork(c)
    \/ WaitpidStart(c) \/ WaitpidYield(c) \/ WaitpidReap(c)
    \/ KernelLoop(c)

SchedNext == (\E c \in Slots : TaskStep(c)) \/ Idle

\* No preemption: a task runs until it yields.  Fairness states that every
\* task eventually takes its next step, i.e. that user programs eventually
\* make a syscall (a user loop without syscalls would starve every task).
SchedFairness == \A c \in Slots : WF_schedVars(TaskStep(c))

Spec == SchedInit /\ [][SchedNext]_schedVars /\ SchedFairness

-----------------------------------------------------------------------------
(* Properties                                                              *)

TypeOK ==
    /\ allocated \subseteq Slots
    /\ pid \in [Slots -> 0..MaxPid]
    /\ state \in [Slots -> TaskStates]
    /\ exitCode \in [Slots -> 0..255]
    /\ taskList \in Seq(Slots)
    /\ current \in Slots
    /\ pidCounter \in 3..(MaxPid + 1)
    /\ pc \in [Slots -> SchedPCs]
    /\ waitSlot \in [Slots -> Slots \cup {0}]
    /\ waitPid \in [Slots -> 0..MaxPid]
    /\ parent \in [Slots -> 0..MaxPid]
    /\ termCode \in [Slots -> 0..255]

\* task_struct_lh (fork appends with list_add_tail, waitpid unlinks with
\* free_task) holds exactly the allocated task_structs, each once, and in
\* increasing pid order as the comment on task_struct_lh promises.
TaskListConsistent ==
    /\ ToSet(taskList) = allocated
    /\ Len(taskList) = Cardinality(allocated)
    /\ IsSorted([i \in 1..Len(taskList) |-> pid[taskList[i]]], <)

\* A waitpid(p) that returns has freed the task_struct of a zombie whose
\* pid is p, and that struct was still allocated: it never frees a running
\* task, another task, or a struct that was already freed.
WaitpidReapsItsTarget ==
    [][\A c \in Slots :
         (c \in allocated /\ pc[c] = "waitpid" /\ pc'[c] = "user") =>
            /\ waitSlot[c] \in allocated
            /\ pid[waitSlot[c]] = waitPid[c]
            /\ state[waitSlot[c]] = "Zombie"]_schedVars

\* The exit code waitpid reports is the one the task had when it became a
\* zombie (by exit, a fault or kill).
WaitpidReportsExitCode ==
    [][\A c \in Slots :
         (c \in allocated /\ pc[c] = "waitpid" /\ pc'[c] = "user") =>
            exitCode[waitSlot[c]] = termCode[waitSlot[c]]]_schedVars

\* Round-robin task_yield starves nobody: a RUNNING task eventually gets
\* the CPU unless it stops being RUNNING first.
StarvationFree ==
    \A s \in Slots :
        (s \in allocated /\ state[s] = "Running")
            ~> (current = s \/ state[s] # "Running" \/ s \notin allocated)

=============================================================================
