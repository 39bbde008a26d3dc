------------------------------ MODULE TtyInput ------------------------------
(***************************************************************************)
(* Keyboard input to the virtual terminals (drivers/keyboard.c and the    *)
(* input side of drivers/tty.c).  The keyboard ISR keyboard_rb_fill reads *)
(* the scancodes the controller holds, tracks the modifier keys, switches *)
(* the active VT on Ctrl+1..3 and hands every other key to vt_update_input,*)
(* which appends its bytes to the active VT's input ring.  Tasks blocked  *)
(* in vt_read drain the ring of the VT they read.                         *)
(*                                                                         *)
(* The ISR runs with interrupts masked (gate 0x8E) and is one step.  A    *)
(* task in vt_read runs with interrupts masked between two task_yields,   *)
(* so one step of a reader is one pass of the outer while (true): yield,  *)
(* then drain until the ring is empty or the read is complete.  A pass   *)
(* over an empty ring changes nothing and is a stuttering step.           *)
(***************************************************************************)
EXTENDS Integers, Sequences, SequencesExt, FiniteSets, TLC

CONSTANTS
    VT_INPUT_BUFFER_LENGTH, \* 4096 in the code
    Readers,                \* tasks that read a tty
    Lengths,                \* the lengths a read syscall may ask for
    Scancodes,              \* the scancodes the keyboard may send
    MaxBurst,               \* scancodes one interrupt finds (has_more_keys)
    MaxScancodes            \* scancodes over a behaviour

N == VT_INPUT_BUFFER_LENGTH

\* tty1, tty2 and tty3 of terminal_init_1.
Vts == 1 .. 3

\* The byte and the symbol 0.
NUL == "NUL"

Ascii(c) == [symbol_type |-> "KBD_ASCII", symbol |-> c]
NonAscii(k) == [symbol_type |-> "KBD_NONASCII", symbol |-> k]

(***************************************************************************)
(* The rows of keymap_no_modifiers and keymap_shift for the scancodes the *)
(* model sends; a byte is the character as a string, "ESC" for 0x1B and   *)
(* "DEL" for 0xFF.  Caps lock (0x3A) maps to symbol 0 in both tables.     *)
(***************************************************************************)
Keymap ==
       (1 :> <<NonAscii("KBD_ESC"), NonAscii("KBD_ESC")>>)
    @@ (2 :> <<Ascii("1"), Ascii("!")>>)
    @@ (3 :> <<Ascii("2"), Ascii("dquote")>>)
    @@ (4 :> <<Ascii("3"), Ascii("#")>>)
    @@ (14 :> <<NonAscii("KBD_BACKSPACE"), NonAscii("KBD_BACKSPACE")>>)
    @@ (30 :> <<Ascii("a"), Ascii("A")>>)
    @@ (58 :> <<NonAscii(NUL), NonAscii(NUL)>>)
    @@ (72 :> <<NonAscii("KBD_ARROW_UP"), NonAscii("KBD_ARROW_UP")>>)
    @@ (75 :> <<NonAscii("KBD_ARROW_LEFT"), NonAscii("KBD_ARROW_LEFT")>>)

\* Make and break codes of the modifiers (0x2A/0xAA shift, 0x1D/0x9D ctrl,
\* 0x38/0xB8 alt), and the break code of 'a' (0x9E).
ModifierCodes == [shift |-> <<42, 170>>, ctrl |-> <<29, 157>>, alt |-> <<56, 184>>]
Mods == {"MOD_SHIFT", "MOD_CTRL", "MOD_ALT"}
ModOf == [shift |-> "MOD_SHIFT", ctrl |-> "MOD_CTRL", alt |-> "MOD_ALT"]

ASSUME
    /\ N \in Nat /\ N >= 2
    /\ Scancodes \subseteq DOMAIN Keymap \cup {ModifierCodes[m][i] : m \in DOMAIN ModifierCodes, i \in 1 .. 2} \cup {158}
    /\ Lengths \subseteq Nat /\ MaxBurst \in Nat \ {0} /\ MaxScancodes \in Nat

VARIABLES
    tty,                \* per VT: [input_rb, input_rb_head_idx, input_rb_tail_idx]
    depressed_mod_keys, \* the modifier keys currently pressed
    active_vt_device,   \* the VT input goes to
    reader,             \* per task: the vt_read it is blocked in, or none
    scanned,            \* scancodes delivered so far (bounded by MaxScancodes)
    stored,             \* ghost: per VT, each key event sent to it: [enc, kept]
    taken               \* ghost: per VT, the bytes tasks took from it, in order

vars == <<tty, depressed_mod_keys, active_vt_device, reader, scanned, stored, taken>>

NotReading == [vt |-> 0, length |-> 0, buf |-> <<>>]

Bytes == {"1", "!", "2", "dquote", "3", "#", "a", "A", "ESC", "DEL", "[", "A", "D"}

\* vt_device_init memsets the device; terminal_init_1 makes tty1 active.
Init ==
    /\ tty = [v \in Vts |-> [input_rb |-> [i \in 0 .. N - 1 |-> NUL],
                             input_rb_head_idx |-> 0, input_rb_tail_idx |-> 0]]
    /\ depressed_mod_keys = {}
    /\ active_vt_device = 1
    /\ reader = [t \in Readers |-> NotReading]
    /\ scanned = 0
    /\ stored = [v \in Vts |-> <<>>]
    /\ taken = [v \in Vts |-> <<>>]

\* The bytes between head and tail, oldest first.
RingContent(d) ==
    [i \in 1 .. (d.input_rb_tail_idx - d.input_rb_head_idx) % N |->
        d.input_rb[(d.input_rb_head_idx + i - 1) % N]]

\* The bytes vt_update_input appends for a key event; the switch has no
\* default, so another non-ASCII symbol appends nothing.
Encode(ev) ==
    IF ev.symbol_type = "KBD_ASCII" THEN <<ev.symbol>>
    ELSE CASE ev.symbol = "KBD_ESC"        -> <<"ESC">>
           [] ev.symbol = "KBD_BACKSPACE"  -> <<"DEL">>
           [] ev.symbol = "KBD_ARROW_UP"   -> <<"ESC", "[", "A">>
           [] ev.symbol = "KBD_ARROW_LEFT" -> <<"ESC", "[", "D">>
           [] OTHER                        -> <<>>

\* Appending without the full test: a full ring is overwritten.
vt_append_input_character_unchecked(d, c) ==
    [d EXCEPT !.input_rb[d.input_rb_tail_idx] = c,
              !.input_rb_tail_idx = (@ + 1) % N]

\* Advancing the tail without the wrap.
vt_append_input_character_nowrap(d, c) ==
    IF (N + d.input_rb_head_idx - d.input_rb_tail_idx) % N = 1
    THEN d
    ELSE [d EXCEPT !.input_rb[d.input_rb_tail_idx] = c,
                   !.input_rb_tail_idx = @ + 1]

(***************************************************************************)
(* vt_append_input_character: when head is one ahead of tail the ring is *)
(* full and the byte is dropped.                                          *)
(***************************************************************************)
vt_append_input_character(d, c) ==
    IF (N + d.input_rb_head_idx - d.input_rb_tail_idx) % N = 1
    THEN d
    ELSE [d EXCEPT !.input_rb[d.input_rb_tail_idx] = c,
                   !.input_rb_tail_idx = (@ + 1) % N]

\* vt_update_input: the event's bytes, appended one at a time.
vt_update_input(d, ev) == FoldLeft(vt_append_input_character, d, Encode(ev))

(***************************************************************************)
(* One pass of keyboard_rb_fill's do-while over the ISR's view           *)
(* [tty, mods, active, stored]: the modifier make and break codes update  *)
(* depressed_mod_keys, other break codes (above 0x80) are ignored,       *)
(* Ctrl+1..3 calls set_active_vt, and any other key is looked up in the   *)
(* shift or plain keymap and, unless its symbol is 0, passed to           *)
(* vt_update_input for the active VT.                                     *)
(***************************************************************************)
KeyboardScancode(st, sc) ==
    LET press   == {ModOf[m] : m \in {x \in DOMAIN ModifierCodes : ModifierCodes[x][1] = sc}}
        release == {ModOf[m] : m \in {x \in DOMAIN ModifierCodes : ModifierCodes[x][2] = sc}}
        ev == Keymap[sc][IF "MOD_SHIFT" \in st.mods THEN 2 ELSE 1]
        v == st.active
        d == vt_update_input(st.tty[v], ev)
        kept == (d.input_rb_tail_idx - st.tty[v].input_rb_tail_idx) % N
    IN CASE press \cup release # {} -> [st EXCEPT !.mods = (@ \cup press) \ release]
         [] sc > 128 -> st
         [] sc \in 2 .. 4 /\ "MOD_CTRL" \in st.mods -> [st EXCEPT !.active = sc - 1]
         [] ev.symbol = NUL -> st
         [] OTHER -> [st EXCEPT !.tty[v] = d,
                                !.stored[v] = Append(@, [enc |-> Encode(ev),
                                                         kept |-> SubSeq(Encode(ev), 1, kept)])]

Bursts == UNION {[1 .. k -> Scancodes] : k \in 1 .. MaxBurst}

(***************************************************************************)
(* hw_interrupt_handler on IRQ 1: keyboard_rb_fill reads scancodes while  *)
(* the status port says more are waiting, then the EOI.  The interrupt    *)
(* may come between any two steps of the readers.                         *)
(***************************************************************************)
KeyboardInterrupt(burst) ==
    LET st0 == [tty |-> tty, mods |-> depressed_mod_keys,
                active |-> active_vt_device, stored |-> stored]
        st == FoldLeft(KeyboardScancode, st0, burst)
    IN /\ scanned + Len(burst) <= MaxScancodes
       /\ tty' = st.tty
       /\ depressed_mod_keys' = st.mods
       /\ active_vt_device' = st.active
       /\ stored' = st.stored
       /\ scanned' = scanned + Len(burst)
       /\ UNCHANGED <<reader, taken>>

(***************************************************************************)
(* SYSCALL_READ on an fd of /dev/ttyN reaches vt_read through vfs_read.   *)
(***************************************************************************)
ReadStart(t, v, len) ==
    /\ reader[t] = NotReading
    /\ reader' = [reader EXCEPT ![t] = [vt |-> v, length |-> len, buf |-> <<>>]]
    /\ UNCHANGED <<tty, depressed_mod_keys, active_vt_device, scanned, stored, taken>>

\* Mutant: the pass returns only when more than the missing bytes wait.
ReadStepLate(t) ==
    LET r == reader[t]
        d == tty[r.vt]
        avail == RingContent(d)
        room == r.length - Len(r.buf)
        done == room \in 1 .. Len(avail) - 1
        k == IF done THEN room ELSE Len(avail)
    IN /\ r # NotReading
       /\ avail # <<>>
       /\ tty' = [tty EXCEPT ![r.vt].input_rb_head_idx = (@ + k) % N]
       /\ taken' = [taken EXCEPT ![r.vt] = @ \o SubSeq(avail, 1, k)]
       /\ reader' = [reader EXCEPT ![t] = IF done THEN NotReading
                                          ELSE [r EXCEPT !.buf = @ \o avail]]
       /\ UNCHANGED <<depressed_mod_keys, active_vt_device, scanned, stored>>

(***************************************************************************)
(* vt_read, one pass after task_yield: copy bytes from head while the    *)
(* ring is not empty, and return length once buf reaches buffer + length. *)
(* The test comes after the copy, so a read of length 0 never returns: it *)
(* takes every byte that arrives, writing past the caller's buffer.       *)
(***************************************************************************)
ReadStep(t) ==
    LET r == reader[t]
        d == tty[r.vt]
        avail == RingContent(d)
        room == r.length - Len(r.buf)
        done == room \in 1 .. Len(avail)
        k == IF done THEN room ELSE Len(avail)
    IN /\ r # NotReading
       /\ avail # <<>>
       /\ tty' = [tty EXCEPT ![r.vt].input_rb_head_idx = (@ + k) % N]
       /\ taken' = [taken EXCEPT ![r.vt] = @ \o SubSeq(avail, 1, k)]
       /\ reader' = [reader EXCEPT ![t] = IF done THEN NotReading
                                          ELSE [r EXCEPT !.buf = @ \o avail]]
       /\ UNCHANGED <<depressed_mod_keys, active_vt_device, scanned, stored>>

Next ==
    \/ \E b \in Bursts : KeyboardInterrupt(b)
    \/ \E t \in Readers, v \in Vts, len \in Lengths : ReadStart(t, v, len)
    \/ \E t \in Readers : ReadStep(t)

(***************************************************************************)
(* The scheduler runs every RUNNING task in turn (Scheduler's              *)
(* StarvationFree), so a reader with input waiting eventually makes its   *)
(* pass.  Keys and read syscalls come from the user and get no fairness.  *)
(***************************************************************************)
Spec == Init /\ [][Next]_vars /\ \A t \in Readers : WF_vars(ReadStep(t))

-----------------------------------------------------------------------------
(* Properties                                                              *)

\* Every VT's ring indices stay inside the ring and its bytes come from the
\* keymap; a reader's buffer holds keymap bytes.
TtyTypeOK ==
    /\ \A v \in Vts :
         /\ tty[v].input_rb_head_idx \in 0 .. N - 1
         /\ tty[v].input_rb_tail_idx \in 0 .. N - 1
         /\ tty[v].input_rb \in [0 .. N - 1 -> Bytes \cup {NUL}]
    /\ depressed_mod_keys \subseteq Mods
    /\ active_vt_device \in Vts
    /\ \A t \in Readers : reader[t] = NotReading \/
         (reader[t].vt \in Vts /\ reader[t].length \in Lengths /\ reader[t].buf \in Seq(Bytes))

\* The bytes vt_append_input_character stored in a VT's ring, in order.
Accepted(v) == FlattenSeq([k \in DOMAIN stored[v] |-> stored[v][k].kept])

(***************************************************************************)
(* The input ring is a FIFO: for every VT, the bytes vt_read has taken, in *)
(* the order tasks took them, followed by what is between head and tail,  *)
(* are exactly the bytes the keyboard ISR stored.  Nothing is lost,       *)
(* overwritten, duplicated or reordered by the modular head and tail      *)
(* arithmetic or the full test of vt_append_input_character, whichever    *)
(* readers drain the ring and however input and reads interleave.         *)
(***************************************************************************)
InputFifo ==
    \A v \in Vts : taken[v] \o RingContent(tty[v]) = Accepted(v)

(***************************************************************************)
(* A read returns as soon as the bytes it asked for have arrived: once   *)
(* what it has copied and what waits in its VT's ring together reach its  *)
(* length, it eventually returns, unless another task reads the same VT   *)
(* and may take those bytes.  The bytes may come over several interrupts *)
(* and several passes of vt_read's loop, across the ring's wrap; the read *)
(* must stop copying exactly at buffer + length and return then.          *)
(***************************************************************************)
ReadReturnsOnceArrived ==
    \A t \in Readers :
        (reader[t] # NotReading
           /\ Len(reader[t].buf) + Len(RingContent(tty[reader[t].vt])) >= reader[t].length)
          ~> (reader[t] = NotReading
              \/ \E u \in Readers \ {t} : reader[u] # NotReading /\ reader[u].vt = reader[t].vt)

(***************************************************************************)
(* A key reaches the VT whole or not at all: vt_update_input appends the  *)
(* bytes of an arrow key one at a time, and the full test drops each byte *)
(* on its own, where the comment there speaks of dropping events.          *)
(***************************************************************************)
KeysStoredWhole ==
    \A v \in Vts : \A k \in DOMAIN stored[v] : stored[v][k].kept \in {<<>>, stored[v][k].enc}

(***************************************************************************)
(* vt_read never writes more than length bytes into the caller's buffer.  *)
(***************************************************************************)
ReadWithinBuffer ==
    \A t \in Readers : Len(reader[t].buf) <= reader[t].length

=============================================================================
