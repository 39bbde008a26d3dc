----------------------------- MODULE ShellParse -----------------------------
(***************************************************************************)
(* The command-line parser of userspace/src/shell.c, as pure operators.   *)
(* Each parse_* function becomes an operator of the line s, a start       *)
(* offset i and an end offset e (start + length), all 0-based as in the   *)
(* C pointer arithmetic; a struct pair becomes a record, NULL the record  *)
(* Null.  exec_shell_line is reduced to what it decides before fork: a    *)
(* syntax error, nothing to do, or the argv and redirects it would run.   *)
(*                                                                         *)
(* RefParse is an independent reading of the grammar the code's comments *)
(* state: a one-pass lexer with a quote flag.  ParseMatchesReference      *)
(* compares the two on every line over a small alphabet.                 *)
(***************************************************************************)
EXTENDS Integers, Sequences, SequencesExt

CONSTANTS
    Letters,    \* ordinary characters a line may hold
    MaxLine     \* length bound of the lines compared with RefParse

Space == " "
Quote == "'"
Less == "<"
Greater == ">"
Nul == "NUL"

ASSUME Letters \cap {Space, Quote, Less, Greater, Nul, "LF"} = {}
       /\ MaxLine \in Nat

Null == [type |-> "NULL"]
IsNull(p) == p.type = "NULL"

\* *(start + k): the byte at offset k of the line.
Byte(s, k) == s[k + 1]

is_ordinary_character(c) == c \notin {Nul, "LF", Quote, Space, Less, Greater}

\* The loop of parse_zms: the first offset from k on that is not a space.
RECURSIVE SkipSpaces(_, _, _)
SkipSpaces(s, k, e) ==
    IF k < e /\ Byte(s, k) = Space THEN SkipSpaces(s, k + 1, e) ELSE k

\* zms := ' '*  (never NULL)
parse_zms(s, i, e) == [type |-> "OMS", start |-> i, end |-> SkipSpaces(s, i, e)]

\* redirect_operator := '<' | '>'
parse_redirect_operator(s, i, e) ==
    IF i = e \/ Byte(s, i) \notin {Less, Greater} THEN Null
    ELSE [type |-> "REDIRECT_OPERATOR", start |-> i, end |-> i + 1]

\* The do-while loop of parse_unquoted_string.
RECURSIVE SkipOrdinary(_, _, _)
SkipOrdinary(s, k, e) ==
    IF k < e /\ is_ordinary_character(Byte(s, k))
    THEN SkipOrdinary(s, k + 1, e) ELSE k

\* unquoted_string := ordinary_char+
parse_unquoted_string(s, i, e) ==
    IF i = e \/ ~is_ordinary_character(Byte(s, i)) THEN Null
    ELSE [type |-> "UNQUOTED_STRING", start |-> i, end |-> SkipOrdinary(s, i + 1, e)]

\* single_quoted_string := '\'' not_single_quote_char* '\''; NULL when the
\* closing quote is not before the end.
parse_single_quoted_string(s, i, e) ==
    LET closing == {k \in i + 1 .. e - 1 : Byte(s, k) = Quote}
    IN  IF i = e \/ Byte(s, i) # Quote \/ closing = {} THEN Null
        ELSE LET k == Min(closing)
             IN  [type |-> "QUOTED_STRING", start |-> i, end |-> k + 1,
                  content |-> [start |-> i + 1, end |-> k]]

\* The NULL tests the parse functions make on a child's result: the first
\* alternative that parsed, and a wrapping pair around a child.
OrElse(p, q) == IF IsNull(p) THEN q ELSE p
Wrap(type, c) ==
    IF IsNull(c) THEN Null
    ELSE [type |-> type, start |-> c.start, end |-> c.end, child |-> c]

\* word_fragment := single_quoted_string | unquoted_string
parse_word_fragment(s, i, e) ==
    Wrap("WORD_FRAGMENT",
         OrElse(parse_single_quoted_string(s, i, e), parse_unquoted_string(s, i, e)))

RECURSIVE Fragments(_, _, _), FragmentsFrom(_, _, _)

\* Mutant: the loop of parse_word stops after the first fragment.
FragmentsOne(s, k, e) ==
    LET f == parse_word_fragment(s, k, e) IN IF IsNull(f) THEN <<>> ELSE <<f>>

\* parse_word's fragments: one after another, each where the last ended.
Fragments(s, k, e) == FragmentsFrom(s, e, parse_word_fragment(s, k, e))
FragmentsFrom(s, e, f) ==
    IF IsNull(f) THEN <<>> ELSE <<f>> \o Fragments(s, f.end, e)

\* word := word_fragment+
WordOf(i, fs) ==
    IF fs = <<>> THEN Null
    ELSE [type |-> "WORD", start |-> i, end |-> Last(fs).end, fragments |-> fs]
parse_word(s, i, e) == WordOf(i, Fragments(s, i, e))

\* redirect := redirect_operator zms word
RedirectOf(s, i, w) ==
    IF IsNull(w) THEN Null
    ELSE [type |-> "REDIRECT", start |-> i, end |-> w.end,
          operator |-> Byte(s, i), word |-> w]
RedirectAfter(s, i, e, op) ==
    IF IsNull(op) THEN Null
    ELSE RedirectOf(s, i, parse_word(s, parse_zms(s, op.end, e).end, e))
parse_redirect(s, i, e) == RedirectAfter(s, i, e, parse_redirect_operator(s, i, e))

\* simple_command_element := redirect | word
parse_simple_command_element(s, i, e) ==
    Wrap("SIMPLE_COMMAND_ELEMENT", OrElse(parse_redirect(s, i, e), parse_word(s, i, e)))

\* The loop of parse_shell_stmt: an element, then zms, until an element
\* fails.  parse_zms never returns NULL, so the loop's second break is dead.
RECURSIVE Elements(_, _, _), ElementsFrom(_, _, _)
Elements(s, k, e) == ElementsFrom(s, e, parse_simple_command_element(s, k, e))
ElementsFrom(s, e, x) ==
    IF IsNull(x) THEN <<>>
    ELSE <<x>> \o Elements(s, parse_zms(s, x.end, e).end, e)

\* shell_stmt := empty | simple_command_element (zms simple_command_element)*
\* Its end is the end of the last element, not of the spaces after it.
StmtOf(i, xs) ==
    [type |-> "SHELL_STMT", start |-> i,
     end |-> IF xs = <<>> THEN i ELSE Last(xs).end, elements |-> xs]
parse_shell_stmt(s, i, e) == StmtOf(i, Elements(s, i, e))
-----------------------------------------------------------------------------
\* The buffer malloc returns: the bump allocator hands out memory that was
\* never used, on pages map_user_page zeroed.
Fresh == [k \in 0 .. MaxLine + 1 |-> Nul]

\* One iteration of expand_word's loop: copy the fragment's text (the
\* unquoted string, or the quoted string's content) to the end of the
\* buffer, and write the terminator one byte past it.
ExpandFragment(s, st, f) ==
    LET span == IF f.child.type = "UNQUOTED_STRING" THEN f.child ELSE f.child.content
        n == span.end - span.start
    IN  [len |-> st.len + n,
         buf |-> [k \in DOMAIN st.buf |->
                    CASE k \in st.len .. st.len + n - 1 -> Byte(s, span.start + k - st.len)
                      [] k = st.len + n + 1 -> Nul
                      [] OTHER -> st.buf[k]]]

\* The C string a buffer holds: its bytes up to the first NUL.
CString(b) ==
    LET z == Min({k \in DOMAIN b : b[k] = Nul})
    IN  [k \in 1 .. z |-> b[k - 1]]

expand_word(s, w) ==
    CString(FoldLeft(LAMBDA st, f : ExpandFragment(s, st, f),
                     [len |-> 0, buf |-> Fresh], w.fragments).buf)

\* exec_shell_line up to the fork, given the statement parsed from s: a
\* syntax error when it does not reach the end of the line, nothing when it
\* has no word, otherwise the argv and the redirects (fd 0 for '<', 1 for
\* '>') the child will apply.
Decide(s, st) ==
    LET IsWord(x) == x.child.type = "WORD"
        words == SelectSeq(st.elements, IsWord)
        redirects == SelectSeq(st.elements, LAMBDA x : ~IsWord(x))
    IN  CASE st.end # Len(s) -> [kind |-> "syntax_error"]
          [] words = <<>> -> [kind |-> "noop"]
          [] OTHER ->
               [kind |-> "run",
                argv |-> [j \in 1 .. Len(words) |-> expand_word(s, words[j].child)],
                redirects |-> [j \in 1 .. Len(redirects) |->
                                 [fd |-> IF redirects[j].child.operator = Less THEN 0 ELSE 1,
                                  path |-> expand_word(s, redirects[j].child.word)]]]
exec_shell_line(s) == Decide(s, parse_shell_stmt(s, 0, Len(s)))
-----------------------------------------------------------------------------
(***************************************************************************)
(* The reference: a lexer that reads the line once, with a flag for       *)
(* being inside quotes.  A word is a maximal run of ordinary characters   *)
(* and quoted text; spaces end words; '<' and '>' are tokens of their     *)
(* own.  A line is well formed when no quote is left open, it neither     *)
(* starts nor ends with a space, and every operator is followed by a      *)
(* word, which is its target; the other words are the argv.               *)
(***************************************************************************)
RefStart == [toks |-> <<>>, word |-> <<>>, inword |-> FALSE, inq |-> FALSE]

RefClose(st) ==
    IF st.inword
    THEN [st EXCEPT !.toks = Append(@, [word |-> st.word]), !.word = <<>>,
                    !.inword = FALSE]
    ELSE st

RefStep(st, c) ==
    CASE st.inq /\ c = Quote -> [st EXCEPT !.inq = FALSE]
      [] st.inq -> [st EXCEPT !.word = Append(@, c)]
      [] c = Quote -> [st EXCEPT !.inq = TRUE, !.inword = TRUE]
      [] c = Space -> RefClose(st)
      [] c \in {Less, Greater} ->
           [RefClose(st) EXCEPT !.toks = Append(@, [op |-> c])]
      [] OTHER -> [st EXCEPT !.word = Append(@, c), !.inword = TRUE]

IsOp(t) == "op" \in DOMAIN t

\* The reference's decision, given the lexer's final state.
RefDecide(s, lexed) ==
    LET ts == RefClose(lexed).toks
        idx == [j \in 1 .. Len(ts) |-> j]
        ops == SelectSeq(idx, LAMBDA j : IsOp(ts[j]))
        words == SelectSeq(idx, LAMBDA j : ~IsOp(ts[j]) /\ ~(j > 1 /\ IsOp(ts[j - 1])))
        wellFormed ==
            /\ ~lexed.inq
            /\ s # <<>> => Head(s) # Space /\ Last(s) # Space
            /\ \A j \in Range(ops) : j < Len(ts) /\ ~IsOp(ts[j + 1])
    IN  CASE ~wellFormed -> [kind |-> "syntax_error"]
          [] words = <<>> -> [kind |-> "noop"]
          [] OTHER ->
               [kind |-> "run",
                argv |-> [j \in 1 .. Len(words) |-> ts[words[j]].word],
                redirects |-> [j \in 1 .. Len(ops) |->
                                 [fd |-> IF ts[ops[j]].op = Less THEN 0 ELSE 1,
                                  path |-> ts[ops[j] + 1].word]]]
RefParse(s) == RefDecide(s, FoldLeft(RefStep, RefStart, s))

\* Every line up to MaxLine bytes over the alphabet.
Lines == UNION {[1 .. n -> Letters \cup {Space, Quote, Less, Greater}] : n \in 0 .. MaxLine}
\* The parser and the reference decide every line alike.
ParserAgrees == \A s \in Lines : exec_shell_line(s) = RefParse(s)
=============================================================================
