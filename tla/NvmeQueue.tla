------------------------------ MODULE NvmeQueue ------------------------------
(***************************************************************************)
(* The I/O queue pair of the NVMe driver (drivers/nvme.c) run by the      *)
(* tasks of Scheduler: the submission ring (iosq), the completion ring    *)
(* (iocq) with its phase bit, the command-slot table, the controller that *)
(* fetches submissions and posts completions in any order, and the ISR    *)
(* nvme_handle_interrupt.                                                 *)
(*                                                                         *)
(* A task enters nvme_readpage / nvme_writepage from a read or write      *)
(* syscall (the two differ only in the opcode).  Interrupts are delivered *)
(* between any two steps of a task, as the ISR can fire inside task       *)
(* context; the ISR itself runs with interrupts masked (gate 0x8E) and is *)
(* one step.                                                              *)
(***************************************************************************)
EXTENDS Scheduler

CONSTANTS
    QueueSize,    \* NVME_QUEUE_SIZE (64 in the code)
    MaxCommands   \* NVME_MAX_COMMANDS (128 in the code)

ASSUME QueueSize \in Nat /\ QueueSize >= 2 /\ MaxCommands \in Nat \ {0}

VARIABLES
    command_statuses, \* dev->command_statuses
    iosq_tail,        \* dev->iosq_tail
    iosq_head,        \* dev->iosq_head, the host's copy of the SQ head
    iocq_head,        \* dev->iocq_head
    iocq_phase,       \* dev->iocq_phase, phase of "old" entries
    sq,               \* the command id written in each iosq entry
    cq,               \* each iocq entry: [cid, phase, sqhd]
    sqDoorbell,       \* controller register: SQ 1 tail doorbell
    cqDoorbell,       \* controller register: CQ 1 head doorbell
    devSqHead,        \* controller: next SQ entry to fetch
    executing,        \* controller: command ids fetched, not yet completed
    devCqTail,        \* controller: next CQ entry to post
    devPhase,         \* controller: phase bit of the entries it posts
    cmd,              \* local command_id of a task in nvme_readpage
    headSnap,         \* local iocq_head of a task in nvme_readpage
    sqFetched,        \* ghost: the SQ entry was fetched since last written
    posted            \* ghost: command ids posted to the CQ, not consumed

nvmeVars == <<command_statuses, iosq_tail, iosq_head, iocq_head, iocq_phase,
              sq, cq, sqDoorbell, cqDoorbell, devSqHead, executing,
              devCqTail, devPhase, cmd, headSnap, sqFetched, posted>>

vars == <<schedVars, nvmeVars>>

\* The task fields no driver step changes.
taskFields == <<allocated, pid, state, exitCode, taskList, pidCounter,
                waitSlot, waitPid, parent, termCode>>

CommandIds == 0..(MaxCommands - 1)
Ring == 0..(QueueSize - 1)
CommandStatuses == {"FREE", "IN_FLIGHT", "COMPLETED"}

\* Where a task is inside nvme_readpage: the queue-full yield loop, between
\* the tail update and the doorbell, and await_command_finish.
IoPCs == {"sqfull", "doorbell", "await"}

\* Mutant: the index is advanced without the modulo.
RingNextNoWrap(i) == i + 1

\* One step around a ring of NVME_QUEUE_SIZE entries.
RingNext(i) == (i + 1) % QueueSize

-----------------------------------------------------------------------------
(* Helpers translated from drivers/nvme.c                                  *)

\* Mutant: a COMPLETED slot, not yet freed by its owner, is taken as free.
start_command_not_in_flight == Min({i \in CommandIds :
                                      command_statuses[i] # "IN_FLIGHT"})

\* start_command: the first FREE slot scanning up from 0.  When there is
\* none, the scan wraps and spins without yielding (the task_yield in the
\* loop is commented out), so no task step is possible: NvmeSubmit is then
\* disabled.
start_command == Min({i \in CommandIds : command_statuses[i] = "FREE"})

FreeCommandExists == \E i \in CommandIds : command_statuses[i] = "FREE"

\* Mutant: the queue-full loop is left out.
IosqFullNever == FALSE

\* The condition of the queue-full loop of nvme_readpage.
IosqFull == RingNext(iosq_tail) = iosq_head

\* finish_command: in flight -> completed.
finish_command(st, id) == [st EXCEPT ![id] = "COMPLETED"]

\* dev->iosq_head = head_iocq_entry->sq_head_pointer
SqHeadFrom(e) == e.sqhd

\* The IOCQ loop of nvme_handle_interrupt on r = [head, phase, sqHead,
\* statuses, finished]: consume entries while the entry at the head has
\* the inverted phase, wrapping the head and flipping the phase at the end
\* of the ring.
RECURSIVE IocqDrain(_)
IocqDrain(r) ==
    LET e    == cq[r.head]
        h    == r.head + 1
        wrap == h = QueueSize
    IN  IF e.phase = r.phase THEN r
        ELSE IocqDrain([head     |-> IF wrap THEN 0 ELSE h,
                        phase    |-> IF wrap THEN 1 - r.phase ELSE r.phase,
                        sqHead   |-> SqHeadFrom(e),
                        statuses |-> finish_command(r.statuses, e.cid),
                        finished |-> Append(r.finished, e.cid)])

-----------------------------------------------------------------------------
(* Task steps                                                              *)

\* nvme_readpage, the queue-full loop finds the ring full: task_yield.
NvmeSqFullYield(c) ==
    /\ Runs(c) /\ pc[c] \in {"user", "sqfull"}
    /\ IosqFull
    /\ pc' = [pc EXCEPT ![c] = "sqfull"]
    /\ current' = NextTask(c, state, taskList)
    /\ UNCHANGED <<taskFields, nvmeVars>>

\* nvme_readpage from the loop exit to the tail update: start_command,
\* write the entry at iosq_tail, advance iosq_tail.
NvmeSubmit(c) ==
    /\ Runs(c) /\ pc[c] \in {"user", "sqfull"}
    /\ ~IosqFull
    /\ FreeCommandExists
    /\ LET id == start_command IN
       /\ command_statuses' = [command_statuses EXCEPT ![id] = "IN_FLIGHT"]
       /\ sq' = [sq EXCEPT ![iosq_tail] = id]
       /\ cmd' = [cmd EXCEPT ![c] = id]
    /\ sqFetched' = [sqFetched EXCEPT ![iosq_tail] = FALSE]
    /\ iosq_tail' = RingNext(iosq_tail)
    /\ pc' = [pc EXCEPT ![c] = "doorbell"]
    /\ UNCHANGED <<taskFields, current, iosq_head, iocq_head, iocq_phase, cq,
                   sqDoorbell, cqDoorbell, devSqHead, executing, devCqTail,
                   devPhase, headSnap, posted>>

\* Copy iocq_head into the local, write the SQ tail doorbell, and enter
\* await_command_finish.
NvmeDoorbell(c) ==
    /\ Runs(c) /\ pc[c] = "doorbell"
    /\ headSnap' = [headSnap EXCEPT ![c] = iocq_head]
    /\ sqDoorbell' = iosq_tail
    /\ pc' = [pc EXCEPT ![c] = "await"]
    /\ UNCHANGED <<taskFields, current, command_statuses, iosq_tail,
                   iosq_head, iocq_head, iocq_phase, sq, cq, cqDoorbell,
                   devSqHead, executing, devCqTail, devPhase, cmd,
                   sqFetched, posted>>

\* await_command_finish: the slot is still IN_FLIGHT, task_yield.
NvmeAwaitYield(c) ==
    /\ Runs(c) /\ pc[c] = "await"
    /\ command_statuses[cmd[c]] = "IN_FLIGHT"
    /\ current' = NextTask(c, state, taskList)
    /\ UNCHANGED <<taskFields, pc, nvmeVars>>

\* Mutant: the slot is never given back after the command finished.
NvmeAwaitDoneNoFree(c) ==
    /\ Runs(c) /\ pc[c] = "await"
    /\ command_statuses[cmd[c]] # "IN_FLIGHT"
    /\ pc' = [pc EXCEPT ![c] = "user"]
    /\ UNCHANGED <<taskFields, current, nvmeVars>>

\* The slot left IN_FLIGHT: free_command, read the status of the entry
\* at the saved iocq_head, and return (the locals command_id and iocq_head
\* go out of scope: the model resets them).
NvmeAwaitDone(c) ==
    /\ Runs(c) /\ pc[c] = "await"
    /\ command_statuses[cmd[c]] # "IN_FLIGHT"
    /\ command_statuses' = [command_statuses EXCEPT ![cmd[c]] = "FREE"]
    /\ pc' = [pc EXCEPT ![c] = "user"]
    /\ cmd' = [cmd EXCEPT ![c] = 0]
    /\ headSnap' = [headSnap EXCEPT ![c] = 0]
    /\ UNCHANGED <<taskFields, current, iosq_tail, iosq_head, iocq_head,
                   iocq_phase, sq, cq, sqDoorbell, cqDoorbell, devSqHead,
                   executing, devCqTail, devPhase, sqFetched, posted>>

-----------------------------------------------------------------------------
(* Controller and interrupt handler                                        *)

\* The controller fetches the next submitted entry up to the tail doorbell.
DeviceFetch ==
    /\ devSqHead # sqDoorbell
    /\ executing' = executing \cup {sq[devSqHead]}
    /\ sqFetched' = [sqFetched EXCEPT ![devSqHead] = TRUE]
    /\ devSqHead' = RingNext(devSqHead)
    /\ UNCHANGED <<schedVars, command_statuses, iosq_tail, iosq_head,
                   iocq_head, iocq_phase, sq, cq, sqDoorbell, cqDoorbell,
                   devCqTail, devPhase, cmd, headSnap, posted>>

\* The controller completes a fetched command, in any order, and posts its
\* entry with the current phase and SQ head, unless the CQ is full.
DeviceComplete(id) ==
    /\ id \in executing
    /\ RingNext(devCqTail) # cqDoorbell
    /\ cq' = [cq EXCEPT ![devCqTail] =
                [cid |-> id, phase |-> devPhase, sqhd |-> devSqHead]]
    /\ executing' = executing \ {id}
    /\ posted' = posted \cup {id}
    /\ devCqTail' = RingNext(devCqTail)
    /\ devPhase' = IF devCqTail + 1 = QueueSize THEN 1 - devPhase ELSE devPhase
    /\ UNCHANGED <<schedVars, command_statuses, iosq_tail, iosq_head,
                   iocq_head, iocq_phase, sq, sqDoorbell, cqDoorbell,
                   devSqHead, cmd, headSnap, sqFetched>>

\* nvme_handle_interrupt, I/O queue part, when the head entry is new: the
\* IOCQ loop, then the CQ head doorbell write.
\* The IOCQ loop started from the ISR's head and phase.
IocqDrainOf(head, phase) ==
    IocqDrain([head |-> head, phase |-> phase, sqHead |-> iosq_head,
               statuses |-> command_statuses, finished |-> <<>>])

nvme_handle_interrupt ==
    /\ cq[iocq_head].phase # iocq_phase
    /\ LET r == IocqDrainOf(iocq_head, iocq_phase) IN  /\ iocq_head' = r.head
           /\ iocq_phase' = r.phase
           /\ iosq_head' = r.sqHead
           /\ command_statuses' = r.statuses
           /\ cqDoorbell' = r.head
           /\ posted' = posted \ ToSet(r.finished)
    /\ UNCHANGED <<schedVars, iosq_tail, sq, cq, sqDoorbell, devSqHead,
                   executing, devCqTail, devPhase, cmd, headSnap, sqFetched>>

-----------------------------------------------------------------------------
(* Specification                                                           *)

\* Mutant: the host starts with the phase the controller posts first.
IocqPhaseInitInverted == 1

\* nvme_probe_2: iocq_phase = 0 on a zeroed completion page.
IocqPhaseInit == 0

\* The state after nvme_probe_2 created the I/O queues: rings zeroed, all
\* indices 0, every slot FREE; the controller posts phase 1 first.
NvmeInit ==
    /\ command_statuses = [i \in CommandIds |-> "FREE"]
    /\ iosq_tail = 0 /\ iosq_head = 0
    /\ iocq_head = 0 /\ iocq_phase = IocqPhaseInit
    /\ sq = [i \in Ring |-> 0]
    /\ cq = [i \in Ring |-> [cid |-> 0, phase |-> 0, sqhd |-> 0]]
    /\ sqDoorbell = 0 /\ cqDoorbell = 0
    /\ devSqHead = 0 /\ executing = {}
    /\ devCqTail = 0 /\ devPhase = 1
    /\ cmd = [s \in Slots |-> 0]
    /\ headSnap = [s \in Slots |-> 0]
    /\ sqFetched = [i \in Ring |-> TRUE]
    /\ posted = {}

Init == SchedInit /\ NvmeInit

NvmeTaskStep(c) ==
    \/ TaskStep(c) /\ UNCHANGED nvmeVars
    \/ NvmeSqFullYield(c) \/ NvmeSubmit(c) \/ NvmeDoorbell(c)
    \/ NvmeAwaitYield(c) \/ NvmeAwaitDone(c)

Next ==
    \/ \E c \in Slots : NvmeTaskStep(c)
    \/ Idle /\ UNCHANGED nvmeVars
    \/ DeviceFetch
    \/ \E id \in CommandIds : DeviceComplete(id)
    \/ nvme_handle_interrupt

\* Tasks as in Scheduler; the controller eventually fetches and completes
\* every command it was given, and a posted completion raises an
\* interrupt that is eventually delivered.  When the controller answers
\* before await_command_finish first looks, nvme_readpage returns without
\* yielding, so a user program that reads in a loop never yields: only
\* user programs that, returning to user mode again and again, eventually
\* call sched_yield are assumed (strong fairness of SchedYield).
Fairness ==
    /\ \A c \in Slots : WF_vars(NvmeTaskStep(c))
    /\ \A c \in Slots : SF_vars(SchedYield(c) /\ UNCHANGED nvmeVars)
    /\ WF_vars(DeviceFetch)
    /\ \A id \in CommandIds : WF_vars(DeviceComplete(id))
    /\ WF_vars(nvme_handle_interrupt)

NvmeSpec == Init /\ [][Next]_vars /\ Fairness

-----------------------------------------------------------------------------
(* Properties                                                              *)

NvmeTypeOK ==
    /\ pc \in [Slots -> SchedPCs \cup IoPCs]
    /\ command_statuses \in [CommandIds -> CommandStatuses]
    /\ {iosq_tail, iosq_head, iocq_head, sqDoorbell, cqDoorbell, devSqHead,
        devCqTail} \subseteq Ring
    /\ iocq_phase \in {0, 1} /\ devPhase \in {0, 1}
    /\ sq \in [Ring -> CommandIds]
    /\ cq \in [Ring -> [cid : CommandIds, phase : {0, 1}, sqhd : Ring]]
    /\ executing \subseteq CommandIds
    /\ cmd \in [Slots -> CommandIds]
    /\ headSnap \in [Slots -> Ring]
    /\ sqFetched \in [Ring -> BOOLEAN]
    /\ posted \subseteq CommandIds

\* A live task inside nvme_readpage that holds a command id.
Holds(c) ==
    c \in allocated /\ state[c] = "Running" /\ pc[c] \in {"doorbell", "await"}

\* start_command never hands one command id to two tasks at once: two live
\* tasks between start_command and free_command hold distinct ids, and the
\* slot of each is not FREE.
CommandIdUnique ==
    \A c, d \in Slots :
        /\ Holds(c) => command_statuses[cmd[c]] # "FREE"
        /\ (Holds(c) /\ Holds(d) /\ c # d) => cmd[c] # cmd[d]

\* The host never has QueueSize submissions the controller has not
\* fetched: the queue-full loop of nvme_readpage, fed by the SQ head the
\* ISR copies out of completions, keeps the tail from catching up with the
\* controller's head (the ring would look empty and the next write would
\* overwrite an unfetched entry).
SqNeverOverfull == Cardinality({i \in Ring : ~sqFetched[i]}) < QueueSize

\* Every completion the ISR passes to finish_command is one the controller
\* posted and the ISR had not consumed yet, each once, for a command still
\* IN_FLIGHT: the phase-bit test never takes a stale or zeroed entry.
CompletionConsumedOnce ==
    [][nvme_handle_interrupt =>
         LET done == IocqDrainOf(iocq_head, iocq_phase).finished IN
         /\ IsInjective(done)
         /\ \A i \in 1..Len(done) :
              /\ done[i] \in posted
              /\ command_statuses[done[i]] = "IN_FLIGHT"]_vars

\* A task that entered nvme_readpage eventually returns from it, unless it
\* is killed first.
IoEventuallyReturns ==
    \A c \in Slots :
        (c \in allocated /\ state[c] = "Running" /\ pc[c] \in IoPCs)
            ~> (pc[c] = "user" \/ state[c] # "Running" \/ c \notin allocated)

\* The completion entry nvme_readpage reads its status from, at the
\* iocq_head it saved before ringing the doorbell, is the completion of
\* its own command.
StatusOfOwnCommand ==
    [][\A c \in Slots :
         (Holds(c) /\ pc[c] = "await" /\ pc'[c] = "user") =>
            cq[headSnap[c]].cid = cmd[c]]_vars

\* Every command slot that is not FREE belongs to a live task inside
\* nvme_readpage: slots are never leaked.
CommandSlotOwned ==
    \A i \in CommandIds :
        command_statuses[i] # "FREE" => \E c \in Slots : Holds(c) /\ cmd[c] = i

=============================================================================
