------------------------------ MODULE Scanner ------------------------------
(***************************************************************************)
(* The lexical analyser of src/src/scanner.c: scanner_next, with its three *)
(* modes (plain text, the text of an f-string, an expression inside one)   *)
(* and the stack of #if frames.                                            *)
(*                                                                         *)
(* A source is a sequence of symbols.  A symbol is a character, or a whole *)
(* word ("if", "LINUX", "print"), which behaves as an identifier character *)
(* that is neither a hexadecimal digit nor an escape letter.  A scanner is *)
(* the record of the C struct; `pos` is `current`, and Len(src) + 1 is the *)
(* terminating NUL.  Columns are left out: only messages use them.         *)
(***************************************************************************)
EXTENDS Naturals, Sequences, FiniteSets, Loops

CONSTANTS MaxCond   \* frames of cond_stack: 16 in the code

NUL == "NUL"
DQ == "dq"          \* the double quote
BS == "bs"          \* the backslash
NL == "nl"          \* the line break
SP == "sp"          \* the blank
LC == "lc"          \* the braces
RC == "rc"
SEMI == "semi"
COMMA == "comma"

Words == {"if", "else", "end", "endif", "LINUX", "WINDOWS", "def", "return",
          "time", "bench", "print", "take", "dispose", "dup", "move", "name"}
Digits == {"0", "1", "7"}
Letters == {"f", "r", "x", "b", "e", "n", "g"}
HexDigits == Digits \cup {"b", "e", "f"}

isalpha(c) == c \in Letters \cup Words
isdigit(c) == c \in Digits
isalnum(c) == isalpha(c) \/ isdigit(c)
isxdigit(c) == c \in HexDigits

At(src, i) == IF i \in 1..Len(src) THEN src[i] ELSE NUL
is_at_end(src, i) == At(src, i) = NUL

Positions(src) == 1 .. Len(src) + 1

Advance(src) == [n \in Positions(src) |-> n + 1]

\* while (peek is in C) advance.  The end is outside every C.
SkipIn(src, i, C) ==
    Iterate(Positions(src), [n \in Positions(src) |-> At(src, n) \notin C], Advance(src), i)

\* while (!is_at_end && peek is not in C) advance.
SkipTo(src, i, C) ==
    Iterate(Positions(src), [n \in Positions(src) |-> At(src, n) \in C \cup {NUL}], Advance(src), i)

NewLines(src, i, j) == Cardinality({n \in i..(j - 1) : At(src, n) = NL})

NameSymbols == Letters \cup Words \cup Digits \cup {"_"}

\* What a scan of one token returns: its kind, the position after it, and the
\* lines it counted.
Tok(k, to, lines) == [k |-> k, to |-> to, lines |-> lines]

-----------------------------------------------------------------------------
(* Whitespace and comments.                                                *)

Comments(src) == [pos : Positions(src), depth : Nat]

CommentStep(src, y) ==
    IF At(src, y.pos) = "/" /\ At(src, y.pos + 1) = "*"
    THEN [pos |-> y.pos + 2, depth |-> y.depth + 1]
    ELSE IF At(src, y.pos) = "*" /\ At(src, y.pos + 1) = "/"
    THEN [pos |-> y.pos + 2, depth |-> y.depth - 1]
    ELSE [pos |-> y.pos + 1, depth |-> y.depth]

\* Where the scan of the block comment whose body starts at i stops, and how
\* many comments are open there.
CommentScan(src, i) ==
    Iterate(Comments(src),
            [y \in Comments(src) |-> y.depth = 0 \/ is_at_end(src, y.pos)],
            [y \in Comments(src) |-> CommentStep(src, y)],
            [pos |-> i, depth |-> 1])

\* Mutant: the end of the file closes every comment.
block_comment_silent(src, i) == CommentScan(src, i).pos

\* The position after the comment, or 0 when the file ends first.
block_comment(src, i) ==
    IF CommentScan(src, i).depth = 0 THEN CommentScan(src, i).pos ELSE 0

\* skip_whitespace: the next position, and whether every comment closed.
Spaces(src) == [to : Positions(src), ok : BOOLEAN]

LineComment(src, i)  == At(src, i) = "/" /\ At(src, i + 1) = "/"
BlockComment(src, i) == At(src, i) = "/" /\ At(src, i + 1) = "*"

SpaceStep(src, i) ==
    IF At(src, i) \in {SP, NL} THEN [to |-> i + 1, ok |-> TRUE]
    ELSE IF LineComment(src, i) THEN [to |-> SkipTo(src, i, {NL}), ok |-> TRUE]
    ELSE LET end == block_comment(src, i + 2)
         IN  IF end = 0 THEN [to |-> Len(src) + 1, ok |-> FALSE]
             ELSE [to |-> end, ok |-> TRUE]

skip_whitespace(src, i) ==
    Iterate(Spaces(src),
            [y \in Spaces(src) |-> \/ ~y.ok
                                   \/ /\ At(src, y.to) \notin {SP, NL}
                                      /\ ~LineComment(src, y.to) /\ ~BlockComment(src, y.to)],
            [y \in Spaces(src) |-> SpaceStep(src, y.to)],
            [to |-> i, ok |-> TRUE])

-----------------------------------------------------------------------------
(* Literals.                                                               *)

\* The exponent and what follows it, once the digits up to i are read.
Exponent(src, i, isFloat) ==
    IF At(src, i) # "e" THEN Tok(IF isFloat THEN "FLOAT_LIT" ELSE "INT_LIT", i, 0)
    ELSE LET d == IF At(src, i + 1) \in {"+", "-"} THEN i + 2 ELSE i + 1
         IN  IF ~isdigit(At(src, d)) THEN Tok("ERROR", d, 0)
             ELSE Tok("FLOAT_LIT", SkipIn(src, d, Digits), 0)

scan_number(src, st) ==
    LET i == st + 1
        radix(digits) == IF At(src, i + 1) \notin digits THEN Tok("ERROR", i + 1, 0)
                         ELSE Tok("INT_LIT", SkipIn(src, i + 1, digits), 0)
        d == SkipIn(src, i, Digits)
    IN  CASE src[st] = "0" /\ At(src, i) = "x" -> radix(HexDigits)
          [] src[st] = "0" /\ At(src, i) = "b" -> radix({"0", "1"})
          [] OTHER ->
               IF At(src, d) = "." /\ isdigit(At(src, d + 1))
               THEN Exponent(src, SkipIn(src, d + 1, Digits), TRUE)
               ELSE Exponent(src, d, FALSE)

ThreeQuotes(src, i, q) == \A n \in 0..2 : At(src, i + n) = q

\* A raw string ends at the first three closing quotes.
scan_raw_string3(src, i, q) ==
    LET end == Iterate(Positions(src),
                       [n \in Positions(src) |-> is_at_end(src, n) \/ ThreeQuotes(src, n, q)],
                       Advance(src), i)
    IN  IF is_at_end(src, end) THEN Tok("ERROR", end, NewLines(src, i, end))
        ELSE Tok("RAWSTRING3_LIT", end + 3, NewLines(src, i, end))

scan_raw_string(src, i, q) ==
    LET end == SkipTo(src, i, {q}) IN
    IF is_at_end(src, end) THEN Tok("ERROR", end, NewLines(src, i, end))
    ELSE Tok("RAWSTRING_LIT", end + 1, NewLines(src, i, end))

\* Symbols of the escape at i, 0 for a malformed one.
EscapeWidth(src, i) ==
    CASE At(src, i + 1) \in {"n", "b", "r", BS, DQ, "0"} -> 2
      [] At(src, i + 1) = "x" /\ isxdigit(At(src, i + 2)) /\ isxdigit(At(src, i + 3)) -> 4
      [] OTHER -> 0

\* Where the body of a string stops: its quote, the end or a bad escape.
StringEnd(src, i) ==
    Iterate(Positions(src),
            [n \in Positions(src) |-> \/ At(src, n) \in {NUL, DQ}
                                      \/ At(src, n) = BS /\ EscapeWidth(src, n) = 0],
            [n \in Positions(src) |-> n + (IF At(src, n) = BS THEN EscapeWidth(src, n) ELSE 1)],
            i)

\* After the opening quote at i - 1.
scan_string(src, i) ==
    LET e == StringEnd(src, i)
        stop == CASE At(src, e) = NUL -> e
                  [] At(src, e) = BS -> IF At(src, e + 1) = "x" THEN e + 2 ELSE e + 1
                  [] OTHER -> e + 1
    IN  Tok(IF At(src, e) = DQ THEN "STRING_LIT" ELSE "ERROR", stop, NewLines(src, i, e))

\* A quoted character: nothing counts the line break it may hold.
scan_char(src, i) ==
    IF is_at_end(src, i) THEN Tok("ERROR", i, 0)
    ELSE LET esc == At(src, i) = BS
             c == IF esc THEN i + 2 ELSE i + 1
         IN  IF esc /\ is_at_end(src, i + 1) THEN Tok("ERROR", i + 1, 0)
             ELSE IF At(src, c) # "'" THEN Tok("ERROR", c, 0)
             ELSE Tok("CHAR_LIT", c + 1, 0)

-----------------------------------------------------------------------------
(* Identifiers, keywords, annotations and operators.                       *)

Keyword == [def |-> "FN", return |-> "RETURN", if |-> "IF", else |-> "ELSE", end |-> "END"]

check_keyword(name) ==
    IF Len(name) = 1 /\ name[1] \in DOMAIN Keyword
    THEN Keyword[name[1]] ELSE "IDENTIFIER"

scan_identifier(src, st) ==
    LET i == SkipIn(src, st + 1, NameSymbols)
        name == SubSeq(src, st, i - 1)
        q == At(src, i)
        type == check_keyword(name)
        suffix == \/ q = "?"
                  \/ q = "!" /\ At(src, i + 1) # "="
    IN  CASE name = <<"_">> -> Tok("UNDERSCORE", i, 0)
          [] name = <<"r">> /\ q \in {DQ, "'"} ->
               IF At(src, i + 1) = q /\ At(src, i + 2) = q
               THEN scan_raw_string3(src, i + 3, q)
               ELSE scan_raw_string(src, i + 1, q)
          [] name = <<"f">> /\ q = DQ -> Tok("FSTRING_START", i + 1, 0)
          [] OTHER ->
               Tok(type, IF type = "IDENTIFIER" /\ suffix THEN i + 1 ELSE i, 0)

\* The annotations with a token of their own.
Annotation == [time |-> "AT_TIME", bench |-> "AT_BENCH", print |-> "AT_PRINT",
               take |-> "AT_INTRINSIC", dispose |-> "AT_INTRINSIC",
               dup |-> "AT_INTRINSIC", move |-> "AT_INTRINSIC"]

scan_annotation(src, i) ==
    IF At(src, i) \in DOMAIN Annotation /\ At(src, i + 1) \notin NameSymbols
    THEN Tok(Annotation[At(src, i)], i + 1, 0)
    ELSE IF isalpha(At(src, i)) \/ At(src, i) = "_" THEN Tok("AT", i, 0)
    ELSE Tok("ERROR", i, 0)

\* Operators by their spelling; the longest spelling wins.
OneSymbol ==
    { <<"(", "LPAREN">>, <<")", "RPAREN">>, <<LC, "LBRACE">>,
      <<RC, "RBRACE">>, <<"[", "LBRACKET">>, <<"]", "RBRACKET">>,
      <<SEMI, "SEMICOLON">>, <<COMMA, "COMMA">>, <<"~", "TILDE">>,
      <<":", "COLON">>, <<".", "DOT">>, <<"+", "PLUS">>, <<"-", "MINUS">>,
      <<"*", "STAR">>, <<"/", "SLASH">>, <<"%", "PERCENT">>, <<"&", "AMP">>,
      <<"|", "PIPE">>, <<"^", "CARET">>, <<"!", "BANG">>, <<"=", "ASSIGN">>,
      <<"<", "LT">>, <<">", "GT">> }

TwoSymbols ==
    { <<".", ".", "DOTDOT">>, <<"+", "=", "PLUS_ASSIGN">>,
      <<"-", ">", "ARROW">>, <<"-", "=", "MINUS_ASSIGN">>,
      <<"*", "=", "STAR_ASSIGN">>, <<"/", "=", "SLASH_ASSIGN">>,
      <<"&", "&", "AND">>, <<"|", "|", "OR">>, <<"!", "=", "NEQ">>,
      <<"=", "=", "EQ">>, <<"=", ">", "FAT_ARROW">>, <<"<", "<", "LSHIFT">>,
      <<"<", "=", "LEQ">>, <<">", ">", "RSHIFT">>, <<">", "=", "GEQ">> }

Operators ==
    {<<<<o[1]>>, o[2]>> : o \in OneSymbol}
        \cup {<<<<o[1], o[2]>>, o[3]>> : o \in TwoSymbols}
        \cup {<<<<".", ".", ".">>, "ELLIPSIS">>}

\* The alphabet; "$" stands for every character that no rule knows.
Symbols ==
    NameSymbols \cup {o[1] : o \in OneSymbol} \cup {SP, NL, DQ, BS, "'", "#", "@", "?", "$"}

Spelled(src, st, n) ==
    {op \in Operators : /\ Len(op[1]) <= n
                        /\ \A k \in DOMAIN op[1] : At(src, st + k - 1) = op[1][k]}

scan_operator(src, st) ==
    LET ops == Spelled(src, st, 3)
        op == CHOOSE o \in ops : \A p \in ops : Len(p[1]) <= Len(o[1])
    IN  IF ops = {} THEN Tok("ERROR", st + 1, 0) ELSE Tok(op[2], st + Len(op[1]), 0)

\* One token of plain text at st, which is not the end.
scan_token(src, st) ==
    LET c == At(src, st) IN
    CASE isalpha(c) \/ c = "_" -> scan_identifier(src, st)
      [] isdigit(c) -> scan_number(src, st)
      [] c = DQ     -> scan_string(src, st + 1)
      [] c = "'"    -> scan_char(src, st + 1)
      [] c = "@"    -> scan_annotation(src, st + 1)
      [] OTHER      -> scan_operator(src, st)

-----------------------------------------------------------------------------
(* The scanner's state and the f-string modes.                             *)

scanner_init == [pos |-> 1, line |-> 1, in_fstring |-> FALSE, depth |-> 0,
                 cond |-> <<>>]

\* A result: the scanner after the token, and the token with the line the
\* scanner is on when it is made.
Emit(s, k) == [s |-> s, tok |-> [k |-> k, ln |-> s.line]]

EmitTok(s, t) ==
    Emit([s EXCEPT !.pos = t.to, !.line = @ + t.lines], t.k)

\* Text of an f-string from i: where it stops, and the lines counted (the line
\* break after a backslash is not).
Texts(src) == [to : Positions(src), lines : Nat]

FTextStep(src, y) ==
    IF At(src, y.to) = BS
    THEN [y EXCEPT !.to = IF is_at_end(src, @ + 1) THEN @ + 1 ELSE @ + 2]
    ELSE [to |-> y.to + 1, lines |-> y.lines + (IF At(src, y.to) = NL THEN 1 ELSE 0)]

FText(src, i) ==
    Iterate(Texts(src),
            [y \in Texts(src) |-> At(src, y.to) \in {NUL, LC, DQ}],
            [y \in Texts(src) |-> FTextStep(src, y)],
            [to |-> i, lines |-> 0])

\* At the end of the file the last case advances past the terminating NUL.
scan_fstring_text(src, s) ==
    LET t == FText(src, s.pos) IN
    CASE t.to > s.pos -> EmitTok(s, Tok("FSTRING_TEXT", t.to, t.lines))
      [] t.to = s.pos /\ At(src, s.pos) = DQ ->
           Emit([s EXCEPT !.pos = @ + 1, !.in_fstring = FALSE], "FSTRING_END")
      [] OTHER -> Emit([s EXCEPT !.pos = @ + 1, !.depth = 1], "LBRACE")

\* The printf specification after a top-level colon, up to a closing brace or a quote.
scan_fstring_spec(src, s) ==
    LET to == SkipTo(src, s.pos + 1, {RC, DQ}) IN
    IF At(src, to) = RC
    THEN Emit([s EXCEPT !.pos = to + 1, !.depth = 0], "FSTRING_SPEC")
    ELSE Emit([s EXCEPT !.pos = to], "FSTRING_SPEC")

\* Only a colon at depth 1 opens a specification: those of a struct literal
\* are deeper.
fstring_colon(src, s) == s.depth = 1 /\ At(src, s.pos) = ":"

TextMode(s) == s.in_fstring /\ s.depth = 0

\* The scanner s at position `to`.
MoveTo(src, s, to) == [s EXCEPT !.pos = to, !.line = @ + NewLines(src, s.pos, to)]

FStringDepth(s, c) ==
    IF ~s.in_fstring \/ s.depth = 0 THEN s.depth
    ELSE IF c = LC THEN s.depth + 1 ELSE IF c = RC THEN s.depth - 1 ELSE s.depth

EmitLexeme(s, c, t) ==
    EmitTok([s EXCEPT !.depth = IF t.k = "FSTRING_START" THEN 0 ELSE FStringDepth(s, c),
                      !.in_fstring = @ \/ t.k = "FSTRING_START"], t)

ScanLexeme(src, s, ok) ==
    IF ~ok THEN Emit(s, "ERROR")
    ELSE IF At(src, s.pos) = NUL THEN Emit(s, "EOF")
    ELSE IF s.in_fstring /\ s.depth > 0 /\ fstring_colon(src, s) THEN scan_fstring_spec(src, s)
    ELSE EmitLexeme(s, At(src, s.pos), scan_token(src, s.pos))

AfterSpace(src, s, ws) == ScanLexeme(src, MoveTo(src, s, ws.to), ws.ok)

scanner_next_inner(src, s) ==
    IF TextMode(s) THEN scan_fstring_text(src, s)
    ELSE AfterSpace(src, s, skip_whitespace(src, s.pos))

-----------------------------------------------------------------------------
(* Conditional compilation.                                                *)

cond_platform_name == "LINUX"

Top(s) == s.cond[Len(s.cond)]

cond_is_emitting(s) == s.cond = <<>> \/ Top(s).active

\* Mutant: a frame that looks at the platform alone.
cond_if_flat(s, arg) ==
    LET active == arg = <<cond_platform_name>>
    IN  [s EXCEPT !.cond = Append(@, [active |-> active,
                                      parent_active |-> cond_is_emitting(s),
                                      branch_taken |-> active])]

cond_if(s, arg) ==
    LET emit == cond_is_emitting(s)
        active == emit /\ arg = <<cond_platform_name>>
    IN  [s EXCEPT !.cond = Append(@, [active |-> active, parent_active |-> emit,
                                      branch_taken |-> active])]

cond_else(s) ==
    LET f == Top(s)
        active == f.parent_active /\ ~f.branch_taken
    IN  [s EXCEPT !.cond[Len(s.cond)] =
            [f EXCEPT !.active = active, !.branch_taken = @ \/ active]]

\* Mutant: an empty directive leaves the "#" in place.
directive_start_stays(src, s) ==
    IF At(src, s.pos + 1) \in NameSymbols THEN s.pos + 1 ELSE s.pos

directive_start(src, s) == s.pos + 1

\* What a directive leaves: the scanner at p or, for one that is well-formed,
\* with other frames.
Malformed(s, p) == [s |-> [s EXCEPT !.pos = p], err |-> TRUE]
Obeyed(s) == [s |-> s, err |-> FALSE]

directive_if(s, p, arg) ==
    IF arg = <<>> \/ Len(s.cond) >= MaxCond THEN Malformed(s, p)
    ELSE Obeyed(cond_if([s EXCEPT !.pos = p], arg))

directive_else(s, p) ==
    IF s.cond = <<>> THEN Malformed(s, p) ELSE Obeyed(cond_else([s EXCEPT !.pos = p]))

directive_end(s, p) ==
    IF s.cond = <<>> THEN Malformed(s, p)
    ELSE Obeyed([s EXCEPT !.pos = p, !.cond = SubSeq(@, 1, Len(@) - 1)])

\* The directive at s.pos.
process_directive(src, s) ==
    LET i == directive_start(src, s)
        w == SkipIn(src, i, NameSymbols)
        word == SubSeq(src, i, w - 1)
        a0 == SkipIn(src, w, {SP})
        a == SkipIn(src, a0, NameSymbols)
    IN  CASE word = <<"if">> -> directive_if(s, a, SubSeq(src, a0, a - 1))
          [] word = <<"else">> -> directive_else(s, w)
          [] word \in {<<"end">>, <<"endif">>} -> directive_end(s, w)
          [] word = <<>> -> Malformed(s, i)
          [] OTHER -> Malformed(s, SkipTo(src, w, {NL}))

(* scanner_next. *)

\* What one round of the for (;;) gives: a token to return, or (more) the
\* scanner for the next round.
Round(r, more) == [s |-> r.s, tok |-> r.tok, more |-> more]

AfterDirective(d) == Round(Emit(d.s, "ERROR"), ~d.err)

\* A token of an inactive branch is passed over, the end and errors are not; a
\* cursor outside the source is undefined and kept.
Kept(src, emitting, r) ==
    Round(r, ~(emitting \/ r.tok.k \in {"EOF", "ERROR"} \/ r.s.pos > Len(src) + 1))

FromLexeme(src, s, ok) ==
    IF ~ok THEN Round(Emit(s, "ERROR"), FALSE)
    ELSE IF ~s.in_fstring /\ At(src, s.pos) = "#" THEN AfterDirective(process_directive(src, s))
    ELSE Kept(src, cond_is_emitting(s), scanner_next_inner(src, s))

PastSpace(src, s, ws) == FromLexeme(src, MoveTo(src, s, ws.to), ws.ok)

ScanRound(src, s) ==
    IF TextMode(s) THEN FromLexeme(src, s, TRUE)
    ELSE PastSpace(src, s, skip_whitespace(src, s.pos))

Frames == [active : BOOLEAN, parent_active : BOOLEAN, branch_taken : BOOLEAN]
Scanners(src) == [pos : Positions(src), line : Nat, in_fstring : BOOLEAN, depth : Nat,
                  cond : Seq(Frames)]

\* The for (;;): directives and the tokens of inactive branches are consumed
\* until a token can be returned.
scanner_next(src, s) ==
    ScanRound(src, Iterate(Scanners(src),
                           [t \in Scanners(src) |-> ~ScanRound(src, t).more],
                           [t \in Scanners(src) |-> ScanRound(src, t).s], s))

\* A parser's one-token look-ahead: the scanner is restored.
scanner_peek(src, s) == scanner_next(src, s).tok
=============================================================================
