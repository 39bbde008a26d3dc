------------------------------ MODULE MCShell ------------------------------
(* A VT of 6 x 2 cells and a line of at most 3 bytes, so the prompt and a *)
(* full line fit on a row when the prompt starts at column 0 and wrap     *)
(* when a command's output leaves the prompt further right.               *)
EXTENDS Shell

\* A command writes nothing, a line, or text without a newline.
MCOutputs == {<<>>, <<"x", LF>>, <<"x">>}
============================================================================
