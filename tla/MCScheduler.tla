---------------------------- MODULE MCScheduler ----------------------------
(* Scheduler with three task_struct slots: init, kt-hw-init and one slot  *)
(* that fork fills, waitpid frees and a later fork reuses.               *)
EXTENDS Scheduler

MCSlots == 1..3
MCMaxPid == 5
MCExitCodes == {0, 1}
MCFaultCodes == {1, 128 + 11}

=============================================================================
