----------------------------- MODULE TtyOutput -----------------------------
(***************************************************************************)
(* The output side of the virtual terminals in drivers/tty.c.  Each VT    *)
(* keeps a character buffer, a cursor, an escape-sequence state and one   *)
(* repaint flag per cell; all VTs paint into the one framebuffer, and     *)
(* only the active VT repaints.  vt_write interprets a byte sequence      *)
(* (text, LF, CR, BS and ESC [ A/B/C/D/K/H/J), set_active_vt switches     *)
(* the active VT (Ctrl+1..3 in the keyboard interrupt), and a page fault  *)
(* on the user buffer cuts a write short and prints to tty1.              *)
(*                                                                         *)
(* The framebuffer is modelled per cell: which glyph is drawn, whether   *)
(* the cursor box is drawn, and which VT's background colour it has      *)
(* (vt_background_color depends on device_number).                       *)
(***************************************************************************)
EXTENDS Integers, Sequences, SequencesExt

CONSTANTS
    Width, Height,    \* terminal_width and terminal_height of every VT
    Vts,              \* device numbers of tty1..tty3
    Tty1,             \* the VT printk writes to
    Text,             \* printable bytes written as text
    Writes,           \* byte sequences passed to vt_write
    FaultMessage,     \* the bytes the page fault handler prints
    MaxWrites         \* bound on the number of vt_write calls

\* Control bytes; every other byte is stored in the buffer.
ESC == "ESC"
LF == "LF"
CR == "CR"
BS == "BS"
NUL == "NUL"

\* Bytes vt_repaint_char draws as a glyph (32..127); others draw as space.
Printable == Text \cup {" ", "#", "[", "A", "B", "C", "D", "K", "H", "J"}

ASSUME /\ Width \in Nat \ {0} /\ Height \in Nat \ {0}
       /\ Tty1 \in Vts
       /\ MaxWrites \in Nat

Cells == (0 .. Height - 1) \X (0 .. Width - 1)

VARIABLES
    vt,       \* vt[v]: [buf, row, col, esc, flags] of struct vt_device v
    active,   \* active_vt_device
    screen,   \* screen[c]: what the framebuffer shows at cell c
    writes    \* vt_write calls so far (bounded by MaxWrites)

vars == <<vt, active, screen, writes>>

\* vt_device_init: zeroed buffer, cursor (0,0), no escape, all flags set.
vt_device_init ==
    [buf |-> [c \in Cells |-> NUL], row |-> 0, col |-> 0,
     esc |-> "NONE", flags |-> Cells]

Glyph(ch) == IF ch \in Printable THEN ch ELSE " "

\* The pixels vt_repaint_char draws for cell c of VT v in state t.
Shown(t, v, c) ==
    [glyph |-> Glyph(t.buf[c]), cursor |-> c = <<t.row, t.col>>, vt |-> v]

\* vt_repaint_terminal: repaint every flagged cell, then clear its flag.
Painted(t, v, scr) ==
    [c \in Cells |-> IF c \in t.flags THEN Shown(t, v, c) ELSE scr[c]]
Cleared(t) == [t EXCEPT !.flags = {}]

vt_set_char(t, ch, r, c) ==
    [t EXCEPT !.buf[<<r, c>>] = ch, !.flags = @ \cup {<<r, c>>}]

\* Mutant: only the new cursor cell is flagged.
vt_set_cursor_new_only(t, r, c) ==
    [t EXCEPT !.row = r, !.col = c, !.flags = @ \cup {<<r, c>>}]

vt_set_cursor(t, r, c) ==
    [t EXCEPT !.row = r, !.col = c,
              !.flags = @ \cup {<<t.row, t.col>>, <<r, c>>}]

\* Set the given cells to ' ' (vt_set_char in a loop).
Blank(t, cs) ==
    [t EXCEPT !.buf = [c \in Cells |-> IF c \in cs THEN " " ELSE @[c]],
              !.flags = @ \cup cs]

\* vt_shift_rows: every row takes the next one, the last is blanked;
\* vt_set_char flags every cell.
vt_shift_rows(t) ==
    [t EXCEPT !.buf = [c \in Cells |-> IF c[1] < Height - 1
                                       THEN @[<<c[1] + 1, c[2]>>] ELSE " "],
              !.flags = Cells]

\* Cursor to column 0 of the next row, scrolling at the last row.
NewLine(t) ==
    IF t.row = Height - 1
    THEN vt_shift_rows(vt_set_cursor(t, t.row, 0))
    ELSE vt_set_cursor(t, t.row + 1, 0)

\* Mutant: ESC [ B moves down even from the last row.
CsiNoBottomGuard(t, b) ==
    LET u == CASE b = "A" -> IF t.row # 0
                             THEN vt_set_cursor(t, t.row - 1, t.col) ELSE t
               [] b = "B" -> vt_set_cursor(t, t.row + 1, t.col)
               [] b = "C" -> IF t.col # Width - 1
                             THEN vt_set_cursor(t, t.row, t.col + 1) ELSE t
               [] b = "D" -> IF t.col # 0
                             THEN vt_set_cursor(t, t.row, t.col - 1) ELSE t
               [] b = "K" -> Blank(t, {c \in Cells : c[1] = t.row /\ c[2] >= t.col})
               [] b = "H" -> vt_set_cursor(t, 0, 0)
               [] b = "J" -> Blank(t, {c \in Cells : c[1] > t.row \/
                                          (c[1] = t.row /\ c[2] >= t.col)})
               [] OTHER -> t
    IN [u EXCEPT !.esc = "NONE"]

\* ESC [ x: the final byte of a CSI sequence.
Csi(t, b) ==
    LET u == CASE b = "A" -> IF t.row # 0
                             THEN vt_set_cursor(t, t.row - 1, t.col) ELSE t
               [] b = "B" -> IF t.row # Height - 1
                             THEN vt_set_cursor(t, t.row + 1, t.col) ELSE t
               [] b = "C" -> IF t.col # Width - 1
                             THEN vt_set_cursor(t, t.row, t.col + 1) ELSE t
               [] b = "D" -> IF t.col # 0
                             THEN vt_set_cursor(t, t.row, t.col - 1) ELSE t
               [] b = "K" -> Blank(t, {c \in Cells : c[1] = t.row /\ c[2] >= t.col})
               [] b = "H" -> vt_set_cursor(t, 0, 0)
               [] b = "J" -> Blank(t, {c \in Cells : c[1] > t.row \/
                                          (c[1] = t.row /\ c[2] >= t.col)})
               [] OTHER -> t
    IN [u EXCEPT !.esc = "NONE"]

\* A byte outside an escape sequence.
Plain(t, b) ==
    CASE b = ESC -> [t EXCEPT !.esc = "ESC"]
      [] b = LF -> NewLine(t)
      [] b = CR -> vt_set_cursor(t, t.row, 0)
      [] b = BS -> IF t.col > 0 THEN vt_set_cursor(t, t.row, t.col - 1) ELSE t
      [] OTHER -> LET u == vt_set_char(t, b, t.row, t.col)
                  IN IF u.col = Width - 1 THEN NewLine(u)
                     ELSE vt_set_cursor(u, u.row, u.col + 1)

\* One iteration of the loop in vt_write.
WriteByte(t, b) ==
    CASE t.esc = "PAREN" -> Csi(t, b)
      [] t.esc = "ESC" -> [t EXCEPT !.esc = IF b = "[" THEN "PAREN" ELSE "NONE"]
      [] t.esc = "NONE" -> Plain(t, b)

\* vt_write of s to VT v from state t: every byte, then a repaint when v
\* is the active VT.  Yields the new device and the new screen.
WriteAll(t, s) == FoldLeft(WriteByte, t, s)
Written(v, t, scr) ==
    IF v = active
    THEN [t |-> Cleared(t), screen |-> Painted(t, v, scr)]
    ELSE [t |-> t, screen |-> scr]
-----------------------------------------------------------------------------
\* terminal_init_1: vt_device_init on every VT, then set_active_vt(&tty1).
Init ==
    /\ vt = [v \in Vts |-> IF v = Tty1 THEN Cleared(vt_device_init)
                                        ELSE vt_device_init]
    /\ active = Tty1
    /\ screen = [c \in Cells |-> Shown(vt_device_init, Tty1, c)]
    /\ writes = 0

\* vt_write(v, s), from the write syscall or from printk.
VtWrite(v, s) ==
    /\ writes < MaxWrites
    /\ LET w == Written(v, WriteAll(vt[v], s), screen)
       IN /\ vt' = [vt EXCEPT ![v] = w.t]
          /\ screen' = w.screen
    /\ writes' = writes + 1
    /\ UNCHANGED active

\* A write whose user buffer faults at byte k + 1: the loop has handled k
\* bytes and never reaches the repaint; the page fault handler then prints
\* FaultMessage to tty1 and the task never returns to vt_write.
WriteFault(v, s, k) ==
    /\ writes < MaxWrites
    /\ LET t == [vt EXCEPT ![v] = WriteAll(@, SubSeq(s, 1, k))]
           w == Written(Tty1, WriteAll(t[Tty1], FaultMessage), screen)
       IN /\ vt' = [t EXCEPT ![Tty1] = w.t]
          /\ screen' = w.screen
    /\ writes' = writes + 1
    /\ UNCHANGED active

\* set_active_vt from the keyboard interrupt: flag every cell, paint the
\* desktop, repaint the terminal.
set_active_vt(v) ==
    /\ active' = v
    /\ vt' = [vt EXCEPT ![v] = Cleared(@)]
    /\ screen' = [c \in Cells |-> Shown(vt[v], v, c)]
    /\ UNCHANGED writes

Next ==
    \/ \E v \in Vts, s \in Writes : VtWrite(v, s)
    \/ \E v \in Vts, s \in Writes : \E k \in 0 .. Len(s) - 1 : WriteFault(v, s, k)
    \/ \E v \in Vts : set_active_vt(v)

Spec == Init /\ [][Next]_vars
-----------------------------------------------------------------------------
TtyOutTypeOK ==
    /\ active \in Vts
    /\ writes \in 0 .. MaxWrites
    /\ \A v \in Vts :
         /\ vt[v].row \in 0 .. Height - 1
         /\ vt[v].col \in 0 .. Width - 1
         /\ vt[v].esc \in {"NONE", "ESC", "PAREN"}
         /\ vt[v].flags \subseteq Cells

\* The framebuffer is a cache of the active VT's buffer and cursor: every
\* cell it shows differently from what vt_repaint_char would draw now
\* (an old glyph, a cursor box the cursor has left, another VT's
\* background) carries a repaint flag.  vt_set_char and vt_set_cursor set
\* the flags, set_active_vt sets them all, and vt_repaint_terminal clears
\* only what it paints; a write cut short by a fault leaves its flags set.
ScreenStaleOnlyIfFlagged ==
    \A c \in Cells :
        screen[c] # Shown(vt[active], active, c) => c \in vt[active].flags
=============================================================================
