---------------------------- MODULE MCNvmeQueue ----------------------------
(* NvmeQueue with three task slots, a ring of three entries (two usable,  *)
(* so the queue-full loop and the phase flip on wrap both occur) and a    *)
(* small command-slot table.                                              *)
EXTENDS NvmeQueue

MCSlots == 1..3
MCMaxPid == 3
MCMaxPidForks == 4
MCExitCodes == {}
MCFaultCodes == {}
MCQueueSize == 3
MCSmallQueueSize == 2

=============================================================================
