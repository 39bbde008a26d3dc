---------------------------- MODULE MCTtyOutput ----------------------------
(* Two VTs of 2 x 2 cells.  Every escape sequence is written whole, and   *)
(* ESC and ESC [ are also written alone, so an escape state survives the  *)
(* end of a write and meets the next write (or a fault message).        *)
EXTENDS TtyOutput

MCWrites ==
    {<<"x">>, <<LF>>, <<CR>>, <<BS>>, <<ESC>>, <<"[">>, <<ESC, "Z">>}
    \cup {<<ESC, "[", f>> : f \in {"A", "B", "C", "D", "K", "H", "J", "Z"}}

MCFaultMessage == <<"x", LF>>
============================================================================
