----------------------------- MODULE MCTtyInput -----------------------------
(* TtyInput with a ring of four bytes (three usable, so one arrow key     *)
(* fills it), two readers, and keys that take every branch of             *)
(* keyboard_rb_fill: shift down and up, ctrl down with '2' (switch to     *)
(* tty2, or type '2' or its shifted form), 'a' and its break code, caps   *)
(* lock (symbol 0) and the up arrow (three bytes).                         *)
EXTENDS TtyInput

MCScancodes == {42, 170, 29, 3, 30, 158, 58, 72}

=============================================================================
