------------------------------- MODULE CStd -------------------------------
(***************************************************************************)
(* The string and number routines of cstd.c that the kernel and the user  *)
(* programs share: strlen, strcmp, strncmp, strklcmp (vfs_resolve's name  *)
(* test and the shell's redirect test), sprintf_dec (sysfs meminfo, ps)   *)
(* and parse_n_dec (kill, sleep, truncate, hd and the shell's exit).      *)
(*                                                                         *)
(* A buffer is a sequence of byte values 0..255; At(b, k) is the byte C   *)
(* reads at b + k.  Each C loop is a RECURSIVE operator whose extra       *)
(* argument is the loop variable, and it reads bytes in the order the C   *)
(* condition does, so a read past the end of a buffer is an error of TLC. *)
(* parse_n_dec's uint64_t accumulator is not reduced modulo 2^64: TLC's   *)
(* integers stop at 2^31, and every number the checks parse is below it.  *)
(***************************************************************************)
EXTENDS Integers, Sequences, SequencesExt

NUL == 0
Digit0 == 48     \* '0'

At(b, k) == b[k + 1]

\* The int8_t these functions return: the int difference of two bytes,
\* truncated to 8 bits in two's complement.
Int8(x) == ((x + 128) % 256) - 128

\* strlen: while (str[len]) len++;
RECURSIVE StrlenFrom(_, _)
StrlenFrom(b, len) == IF At(b, len) = NUL THEN len ELSE StrlenFrom(b, len + 1)
strlen(b) == StrlenFrom(b, 0)

\* strcmp: advance while the bytes agree and neither is NUL.
RECURSIVE StrcmpFrom(_, _, _)
StrcmpFrom(b1, b2, i) ==
    IF At(b1, i) = At(b2, i) /\ At(b1, i) # NUL /\ At(b2, i) # NUL
    THEN StrcmpFrom(b1, b2, i + 1)
    ELSE Int8(At(b1, i) - At(b2, i))
strcmp(b1, b2) == StrcmpFrom(b1, b2, 0)

\* strncmp: as strcmp, but the loop also stops at i = n, and then the
\* result is 0.  The C condition reads both bytes before it tests i < n,
\* so the loop reads b1[n] and b2[n] when the first n bytes agree.
RECURSIVE StrncmpFrom(_, _, _, _)
StrncmpFrom(b1, b2, n, i) ==
    IF At(b1, i) = At(b2, i) /\ At(b1, i) # NUL /\ At(b2, i) # NUL /\ i < n
    THEN StrncmpFrom(b1, b2, n, i + 1)
    ELSE IF i = n THEN 0 ELSE Int8(At(b1, i) - At(b2, i))
strncmp(b1, b2, n) == StrncmpFrom(b1, b2, n, 0)

\* A non-zero comparison, or 1 when one string merely starts with the other.
Longer(x) == IF x # 0 THEN x ELSE 1

\* Mutant: a C string that is a proper prefix of the known-length string
\* compares equal to it.
strklcmp_prefix(cstr, klstr, n) ==
    LET m == strlen(cstr)
    IN  CASE m > n -> Longer(strncmp(cstr, klstr, n))
          [] m < n -> strncmp(cstr, klstr, m)
          [] OTHER -> strncmp(cstr, klstr, n)

\* strklcmp: compare the C string cstr with the n bytes at klstr.
strklcmp(cstr, klstr, n) ==
    LET m == strlen(cstr)
    IN  CASE m > n -> Longer(strncmp(cstr, klstr, n))
          [] m < n -> Longer(strncmp(cstr, klstr, m))
          [] OTHER -> strncmp(cstr, klstr, n)
-----------------------------------------------------------------------------
\* The digit the loop of sprintf_dec writes to buffer[j]: after 9 - j
\* divisions by 10, data % 10.
DecDigit(data, j) == (data \div 10^(9 - j)) % 10

\* first_nonzero_digit_index: the loop overwrites it at every nonzero
\* digit from the right, so it ends at the leftmost one, or stays 9.
FirstNonzero(data) ==
    LET nz == {j \in 0 .. 9 : DecDigit(data, j) # 0}
    IN  IF nz = {} THEN 9 ELSE Min(nz)

\* buffer after the digit loop and, when pad_char is not 0, the padding
\* loop over the indices below padEnd.
DecBuffer(data, pad, padEnd) ==
    [j \in 0 .. 9 |-> IF pad # 0 /\ j < padEnd THEN pad ELSE Digit0 + DecDigit(data, j)]

\* How many of the buffer's last bytes are copied: max_digits with
\* padding, otherwise the significant digits, capped by a non-zero
\* max_digits.
DecLength(fnz, pad, maxd) ==
    CASE pad # 0 -> maxd
      [] maxd = 0 \/ maxd >= 10 - fnz -> 10 - fnz
      [] OTHER -> maxd

\* result: memset to 0 over 11 bytes, then memcpy of the last len bytes
\* of buffer.
DecResult(buf, len) == [k \in 1 .. 11 |-> IF k <= len THEN buf[10 - len + k - 1] ELSE NUL]

SprintfDec(data, pad, maxd, padEnd) ==
    DecResult(DecBuffer(data, pad, padEnd), DecLength(FirstNonzero(data), pad, maxd))

\* Mutant: the padding loop also overwrites the leading digit.
sprintf_dec_pad_over(data, pad, maxd) == SprintfDec(data, pad, maxd, FirstNonzero(data) + 1)

sprintf_dec(data, pad, maxd) == SprintfDec(data, pad, maxd, FirstNonzero(data))

IsDecDigit(c) == c \in Digit0 .. Digit0 + 9

\* parse_n_dec: at most n bytes, while they are digits; it returns the
\* count as uint8_t and the value through result.
RECURSIVE ParseDecFrom(_, _, _, _)
ParseDecFrom(b, n, k, tmp) ==
    IF k < n /\ IsDecDigit(At(b, k))
    THEN ParseDecFrom(b, n, k + 1, tmp * 10 + At(b, k) - Digit0)
    ELSE [parsed |-> k % 256, result |-> tmp]
parse_n_dec(b, n) == ParseDecFrom(b, n, 0, 0)
-----------------------------------------------------------------------------
\* Inputs of the checks.  Names and path fragments over 'a' and 'b' of up
\* to three bytes.
Words == UNION {[1 .. n -> {97, 98}] : n \in 0 .. 3}

\* Numbers at the edges of each decimal length, 4 KiB page counts and the
\* largest value TLC holds.
DecValues == {0, 1, 9, 10, 99, 100, 4096, 65535, 99999, 100000,
              999999999, 1000000000, 2147483647}

\* The reference length of v in decimal: the d for which v has a nonzero
\* digit at position d and none above it.
DecimalLength(v) ==
    CHOOSE d \in 1 .. 10 : v \div 10^(d - 1) \in (IF d = 1 THEN 0 ELSE 1) .. 9

\* What a right-aligned field of width w shows for the digits t: spaces,
\* then the digits, then NUL up to 11 bytes.
RightAligned(t, w) ==
    [k \in 1 .. 11 |-> CASE k <= w - Len(t) -> 32
                         [] k <= w -> t[k - (w - Len(t))]
                         [] OTHER -> NUL]
=============================================================================
