------------------------------- MODULE Shell -------------------------------
(***************************************************************************)
(* The interactive line editor of the user shell (userspace/src/shell.c,  *)
(* main with argc < 2), composed with the VT it runs on.  The shell reads *)
(* one byte at a time from its tty; after ESC it reads two more and acts  *)
(* on the arrow keys.  It keeps the current line, the previous line and   *)
(* the cursor's distance from the end of the line, and echoes every       *)
(* change by writing to the tty: a typed character at the end is written  *)
(* as is, every other change redraws the line with rewrite_command_line   *)
(* (CR, ESC [ K, the prompt, the line, and ESC [ D once per position the  *)
(* cursor stands before the end).  The tty is TtyOutput's vt_write on the *)
(* active VT, so every write is followed by a repaint.                    *)
(***************************************************************************)
EXTENDS Integers, Sequences, SequencesExt, ShellParse, CStd

CONSTANTS
    Width, Height,   \* the VT's terminal_width and terminal_height
    Text,            \* ordinary bytes the user types
    CAP,             \* KEYBOARD_COMMAND_BUFFER_LENGTH
    Outputs,         \* what a command line writes to the tty when it runs
    MaxKeys          \* bound on the number of reads

\* The VT the shell writes to: TtyOutput's operators on one active device.
T == INSTANCE TtyOutput WITH
        Vts <- {1}, Tty1 <- 1, Writes <- {}, FaultMessage <- <<>>,
        MaxWrites <- 0, vt <- <<>>, active <- 1, screen <- <<>>, writes <- 0

ESC == T!ESC
LF == T!LF
CR == T!CR
DEL == "DEL"    \* 0xFF, what vt_update_input stores for backspace

\* command_prompt
Prompt == <<"#", " ">>

Keys == Text \cup {ESC, DEL, LF, "[", "A", "B", "C", "D"}

ASSUME /\ CAP \in Nat \ {0} /\ MaxKeys \in Nat
       /\ Text \cap {ESC, DEL, LF} = {}
       /\ Text \subseteq Letters /\ CAP <= MaxLine

VARIABLES
    tty,        \* the struct vt_device of the shell's VT
    line,       \* keyboard_command_buffer[0 .. keyboard_command_length - 1]
    prev,       \* prev_keyboard_command_buffer[0 .. prev_keyboard_command_length - 1]
    off,        \* cursor_end_offset
    pc,         \* "key": read(0, single_char_buffer, 1); "arrow": read(0, arrow_code, 2);
                \* "smashed": a store outside keyboard_command_buffer happened
    promptCol,  \* auxiliary: the column the current prompt was written at
    ref,        \* auxiliary: the line editor the keys describe (see below)
    keys        \* reads so far (bounded by MaxKeys)

vars == <<tty, line, prev, off, pc, promptCol, ref, keys>>

\* write(1, s, n) or puts(s) on the shell's VT: vt_write, then the repaint
\* that clears the flags of the active VT.
Put(t, s) == T!Cleared(T!WriteAll(t, s))

\* Mutant: the redraw does not clear the rest of the row.
rewrite_command_line_no_clear(t, l, o) ==
    Put(t, <<CR>> \o Prompt \o l \o FlattenSeq([i \in 1 .. o |-> <<ESC, "[", "D">>]))

rewrite_command_line(t, l, o) ==
    Put(t, <<CR, ESC, "[", "K">> \o Prompt \o l
           \o FlattenSeq([i \in 1 .. o |-> <<ESC, "[", "D">>]))
-----------------------------------------------------------------------------
(* The line editor the keys describe, as a user reads shell.c's comments: *)
(* a line, a cursor position in it, and the previous line.                *)
EdInsert(r, c) == [r EXCEPT !.line = InsertAt(@, r.pos + 1, c), !.pos = @ + 1]
EdErase(r) ==
    IF r.pos > 0 THEN [r EXCEPT !.line = RemoveAt(@, r.pos), !.pos = @ - 1] ELSE r
EdLeft(r) == [r EXCEPT !.pos = IF @ > 0 THEN @ - 1 ELSE 0]
EdRight(r) == [r EXCEPT !.pos = IF @ < Len(r.line) THEN @ + 1 ELSE @]
EdRecall(r) == [line |-> r.prev, prev |-> r.line, pos |-> Len(r.prev)]
EdSubmit(r) == [line |-> <<>>, prev |-> r.line, pos |-> 0]
-----------------------------------------------------------------------------
\* main: the buffers are zeroed and the prompt is written.
Init ==
    /\ tty = Put(T!Cleared(T!vt_device_init), Prompt)
    /\ line = <<>> /\ prev = <<>> /\ off = 0
    /\ pc = "key"
    /\ promptCol = 0
    /\ ref = [line |-> <<>>, prev |-> <<>>, pos |-> 0]
    /\ keys = 0

\* Bytes that are neither ESC, 0xFF nor '\n' go into the line.
Ordinary == Keys \ {ESC, DEL, LF}

\* ESC: the shell goes on to read the two bytes of the escape code.
ReadEsc ==
    /\ pc = "key" /\ keys < MaxKeys
    /\ pc' = "arrow"
    /\ keys' = keys + 1
    /\ UNCHANGED <<tty, line, prev, off, promptCol, ref>>

\* Mutant: the byte under the cursor is erased, not the one before it.
EraseUnderCursor ==
    /\ pc = "key" /\ keys < MaxKeys
    /\ LET l == IF Len(line) > off THEN RemoveAt(line, Len(line) - off + 1) ELSE line
       IN /\ line' = l
          /\ tty' = rewrite_command_line(tty, l, off)
    /\ promptCol' = 0
    /\ ref' = EdErase(ref)
    /\ keys' = keys + 1
    /\ UNCHANGED <<prev, off, pc>>

\* 0xFF: erase the byte before the cursor if there is one, then redraw.
Erase ==
    /\ pc = "key" /\ keys < MaxKeys
    /\ LET l == IF Len(line) > off THEN RemoveAt(line, Len(line) - off) ELSE line
       IN /\ line' = l
          /\ tty' = rewrite_command_line(tty, l, off)
    /\ promptCol' = 0
    /\ ref' = EdErase(ref)
    /\ keys' = keys + 1
    /\ UNCHANGED <<prev, off, pc>>

\* '\n': echo it, keep the line as the previous one, run it with
\* exec_shell_line (a line without a word runs nothing and writes nothing;
\* a command writes o), empty the line and write the prompt.
\* cursor_end_offset is left as it was.
Enter(o) ==
    /\ pc = "key" /\ keys < MaxKeys
    /\ exec_shell_line(line).kind = "noop" => o = <<>>
    /\ LET ran == Put(Put(tty, <<LF>>), o)
       IN /\ promptCol' = ran.col
          /\ tty' = Put(ran, Prompt)
    /\ prev' = line
    /\ line' = <<>>
    /\ ref' = EdSubmit(ref)
    /\ keys' = keys + 1
    /\ UNCHANGED <<off, pc>>

\* An ordinary byte with the cursor inside the line: shift the tail right
\* by one, store the byte before it, redraw.
InsertKey(b) ==
    /\ pc = "key" /\ keys < MaxKeys
    /\ off > 0 /\ off <= Len(line) /\ Len(line) < CAP
    /\ LET l == InsertAt(line, Len(line) - off + 1, b)
       IN /\ line' = l
          /\ tty' = rewrite_command_line(tty, l, off)
    /\ promptCol' = 0
    /\ ref' = EdInsert(ref, b)
    /\ keys' = keys + 1
    /\ UNCHANGED <<prev, off, pc>>

\* An ordinary byte with the cursor at the end: store it and echo it.
AppendKey(b) ==
    /\ pc = "key" /\ keys < MaxKeys
    /\ off = 0 /\ Len(line) < CAP
    /\ line' = Append(line, b)
    /\ tty' = Put(tty, <<b>>)
    /\ ref' = EdInsert(ref, b)
    /\ keys' = keys + 1
    /\ UNCHANGED <<prev, off, pc, promptCol>>

\* An ordinary byte whose store lies outside keyboard_command_buffer: the
\* line is full (keyboard_command_length = CAP), or the cursor offset
\* exceeds the line, so the shift loop indexes below the buffer.  What
\* follows depends on the stack layout; the model stops here.
StoreOutside(b) ==
    /\ pc = "key" /\ keys < MaxKeys
    /\ Len(line) = CAP \/ off > Len(line)
    /\ pc' = "smashed"
    /\ keys' = keys + 1
    /\ UNCHANGED <<tty, line, prev, off, promptCol, ref>>

\* ESC [ A: swap the line with the previous one, cursor to the end, redraw.
ArrowUp ==
    /\ pc = "arrow" /\ keys < MaxKeys
    /\ keys' = keys + 1
    /\ off' = 0
    /\ line' = prev
    /\ prev' = line
    /\ tty' = rewrite_command_line(tty, prev, 0)
    /\ promptCol' = 0
    /\ ref' = EdRecall(ref)
    /\ pc' = "key"

\* Mutant: the '[C' branch without the test of cursor_end_offset > 0; the
\* uint16_t offset wraps at the end of the line, and the redraw's 65535
\* ESC [ D leave the cursor at column 0.
ArrowRightUnchecked ==
    /\ pc = "arrow" /\ keys < MaxKeys
    /\ keys' = keys + 1
    /\ pc' = "key"
    /\ off' = (off - 1) % 65536
    /\ tty' = rewrite_command_line(tty, line,
                                   IF off > 0 THEN off - 1 ELSE Len(Prompt) + Len(line))
    /\ promptCol' = 0
    /\ ref' = EdRight(ref)
    /\ UNCHANGED <<line, prev>>

\* ESC [ C: with the cursor before the end, one position right and a
\* redraw; at the end, nothing.
ArrowRight ==
    /\ pc = "arrow" /\ keys < MaxKeys
    /\ keys' = keys + 1
    /\ pc' = "key"
    /\ UNCHANGED <<line, prev>>
    /\ \/ /\ off > 0
          /\ off' = off - 1
          /\ tty' = rewrite_command_line(tty, line, off - 1)
          /\ promptCol' = 0
          /\ ref' = EdRight(ref)
       \/ /\ off = 0
          /\ UNCHANGED <<off, tty, promptCol, ref>>

\* ESC [ D with bytes left of the cursor: one position left, redraw.
ArrowLeft ==
    /\ pc = "arrow" /\ off < Len(line) /\ keys < MaxKeys
    /\ keys' = keys + 1
    /\ off' = off + 1
    /\ tty' = rewrite_command_line(tty, line, off + 1)
    /\ promptCol' = 0
    /\ ref' = EdLeft(ref)
    /\ pc' = "key"
    /\ UNCHANGED <<line, prev>>

\* Any other pair of bytes after ESC (ESC [ B, ESC [ D at the start of the
\* line, or the next two keys after a lone Esc) is swallowed.
ArrowIgnored ==
    /\ pc = "arrow" /\ keys < MaxKeys
    /\ keys' = keys + 1
    /\ pc' = "key"
    /\ UNCHANGED <<tty, line, prev, off, promptCol, ref>>

\* read(0, arrow_code, 2) returns two bytes; the arrow keys are told apart
\* by them, and a step that is not the one they select is ignored.
ReadArrow(b1, b2) ==
    CASE b1 = "[" /\ b2 = "A" -> ArrowUp
      [] b1 = "[" /\ b2 = "C" -> ArrowRight
      [] b1 = "[" /\ b2 = "D" /\ off < Len(line) -> ArrowLeft
      [] OTHER -> ArrowIgnored

Next ==
    \/ ReadEsc
    \/ Erase
    \/ \E o \in Outputs : Enter(o)
    \/ \E b \in Ordinary : InsertKey(b) \/ AppendKey(b) \/ StoreOutside(b)
    \/ \E b1, b2 \in Keys : ReadArrow(b1, b2)

Spec == Init /\ [][Next]_vars
-----------------------------------------------------------------------------
\* The buffers hold typed bytes, and cursor_end_offset, a uint16_t that the
\* arrow keys step, stays between 0 and the buffer's length.
ShellTypeOK ==
    /\ line \in Seq(Ordinary)
    /\ prev \in Seq(Ordinary)
    /\ off \in 0 .. CAP
    /\ pc \in {"key", "arrow", "smashed"}
    /\ promptCol \in 0 .. Width - 1
    /\ keys \in 0 .. MaxKeys

\* The shell's buffers follow the line editor its keys describe: after any
\* sequence of typed bytes, erasures, arrow keys and submitted lines, the
\* line and the previous line are the editor's, and while the offset lies
\* within the line the cursor stands where the editor's does.  This checks
\* the shift loops of insertion and erasure, and the swap of ESC [ A.
LineMatchesEditor ==
    pc # "smashed" =>
        /\ line = ref.line
        /\ prev = ref.prev
        /\ off <= Len(line) => Len(line) - off = ref.pos

\* What the VT holds is the line being edited: while the offset lies within
\* the line and the prompt and line fit on the row, the row shows the
\* prompt and the line from the prompt's column, nothing after them, and
\* the VT's cursor stands on the byte the next key goes before.  Writing a
\* typed byte as is, the redraw of rewrite_command_line, and the prompt
\* after a command's output must all leave it so.
LineShown ==
    LET shown == Prompt \o line
        r == tty.row
    IN (pc # "smashed" /\ off <= Len(line) /\ promptCol + Len(shown) < Width)
       => /\ \A i \in 1 .. Len(shown) : tty.buf[<<r, promptCol + i - 1>>] = shown[i]
          /\ \A c \in promptCol + Len(shown) .. Width - 1 :
                T!Glyph(tty.buf[<<r, c>>]) = " "
          /\ tty.col = promptCol + Len(shown) - off

\* cursor_end_offset never exceeds keyboard_command_length, which every
\* shift loop of shell.c assumes.  '\n' empties the line and keeps the
\* offset, so 'x', left arrow, '\n' breaks it.
CursorInLine == off <= Len(line)

\* Every store of the line editor stays inside keyboard_command_buffer.
\* Nothing bounds the line at KEYBOARD_COMMAND_BUFFER_LENGTH, and the
\* offset left by '\n' makes an insertion index below the buffer.
NoStackSmash == pc # "smashed"

\* The recursive-descent parser of exec_shell_line (parse_shell_stmt down
\* to parse_unquoted_string, then expand_word) decides every line of up to
\* MaxLine bytes exactly as the grammar in its comments does: the same lines
\* are syntax errors, and the others run the same argv with the same
\* redirects.  The parser is a pure function of the line, so it is checked
\* once, in the initial state.
ParseMatchesReference == keys = 0 => ParserAgrees

\* strklcmp and strcmp, which the shell uses to test its redirect
\* operators and the exit builtin, and vfs_resolve to match a path
\* fragment with a dentry name, report equality exactly: a name compares
\* equal to the fragment, whether a '/' or the NUL follows it, only when
\* the two are the same bytes, also when one is a prefix of the other.
NamesCompareExactly ==
    keys = 0 =>
        \A c, w \in Words :
            /\ \A sep \in {NUL, 47} :
                  strklcmp(c \o <<NUL>>, w \o <<sep, NUL>>, Len(w)) = 0 <=> c = w
            /\ strcmp(c \o <<NUL>>, w \o <<NUL>>) = 0 <=> c = w

\* sprintf_dec with no padding (sysfs meminfo) writes the decimal digits
\* of the value with no leading zero, and parse_n_dec over its whole
\* length (the shell's exit, kill, sleep, truncate) reads every byte back
\* to the same value; with ' ' and 5 digits (ps) it right-aligns the same
\* digits in a field of five.
DecimalRoundTrip ==
    keys = 0 =>
        \A v \in DecValues :
            LET r == sprintf_dec(v, 0, 0)
                t == SubSeq(r, 1, strlen(r))
            IN  /\ Len(t) = DecimalLength(v)
                /\ t[1] = Digit0 => v = 0
                /\ parse_n_dec(r, strlen(r)) = [parsed |-> Len(t), result |-> v]
                /\ v < 10^5 => sprintf_dec(v, 32, 5) = RightAligned(t, 5)

====
