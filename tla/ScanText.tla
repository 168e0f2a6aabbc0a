------------------------------ MODULE ScanText ------------------------------
(***************************************************************************)
(* A source text is put together, then scanned token by token.  The text   *)
(* is made of lexemes whose tokens are known in advance, of conditional    *)
(* blocks, and of loose fragments, after which the expected tokens are not *)
(* known and only the general properties apply.                            *)
(***************************************************************************)
EXTENDS Scanner

CONSTANTS
    Lexemes,    \* records [text, toks, wt]: a text, the tokens it must give
    Fragments,  \* texts that may leave a literal or a comment open
    FragmentWeight, DirectiveWeight,  \* what each costs
    MaxWeight   \* bound on the weight of a text

\* What the texts are made of, and how deep #if may nest.
ASSUME TextAssumption ==
    /\ \A l \in Lexemes : l.text \in Seq(Symbols)
    /\ Fragments \subseteq Seq(Symbols)
    /\ MaxCond \in Nat

VARIABLES
    src,     \* the source, a sequence of symbols
    want,    \* the tokens expected, or Unknown once a fragment is in the text
    blocks,  \* the open conditional blocks: [mine, inElse]
    weight,  \* weight used so far
    mode,    \* "write", "scan", "done"
    s,       \* the scanner
    toks     \* the tokens it returned

vars == <<src, want, blocks, weight, mode, s, toks>>

Unknown == <<[k |-> "?", ln |-> 0]>>
LineNow == 1 + NewLines(src, 1, Len(src) + 1)
\* A block is compiled when its own branch is selected, and so is every block
\* around it.
Live == \A n \in DOMAIN blocks : blocks[n].mine # blocks[n].inElse

Init ==
    /\ src = <<>> /\ want = <<>> /\ blocks = <<>> /\ weight = 0
    /\ mode = "write" /\ s = scanner_init /\ toks = <<>>

Put(text, wt) ==
    /\ mode = "write" /\ weight + wt <= MaxWeight
    /\ src' = src \o text
    /\ weight' = weight + wt
    /\ UNCHANGED <<mode, s, toks>>

\* A lexeme and the blank after it.
PutLexeme(l) ==
    /\ Put(Append(l.text, SP), l.wt)
    /\ want' = IF want = Unknown \/ ~Live THEN want
               ELSE want \o [n \in DOMAIN l.toks |->
                        [k |-> l.toks[n].k, ln |-> LineNow + l.toks[n].ln]]
    /\ UNCHANGED blocks

PutFragment(f) ==
    /\ Put(f, FragmentWeight)
    /\ want' = Unknown
    /\ UNCHANGED blocks

PutIf(platform) ==
    /\ Put(<<"#", "if", SP, platform, NL>>, DirectiveWeight)
    /\ blocks' = Append(blocks, [mine |-> platform = cond_platform_name,
                                 inElse |-> FALSE])
    /\ want' = IF Len(blocks) < MaxCond THEN want ELSE Unknown

PutElse ==
    /\ blocks # <<>> /\ ~blocks[Len(blocks)].inElse
    /\ Put(<<"#", "else", NL>>, DirectiveWeight)
    /\ blocks' = [blocks EXCEPT ![Len(blocks)].inElse = TRUE]
    /\ UNCHANGED want

PutEnd ==
    /\ blocks # <<>>
    /\ Put(<<"#", "end", NL>>, DirectiveWeight)
    /\ blocks' = SubSeq(blocks, 1, Len(blocks) - 1)
    /\ UNCHANGED want

StartScan ==
    /\ mode = "write" /\ mode' = "scan"
    /\ UNCHANGED <<src, want, blocks, weight, s, toks>>

Scan ==
    /\ mode = "scan" /\ s.pos <= Len(src) + 1
    /\ \E r \in {scanner_next(src, s)} :
         /\ s' = r.s
         /\ toks' = Append(toks, r.tok)
         /\ mode' = IF r.tok.k = "EOF" THEN "done" ELSE "scan"
    /\ UNCHANGED <<src, want, blocks, weight>>

Next ==
    \/ \E l \in Lexemes : PutLexeme(l)
    \/ \E f \in Fragments : PutFragment(f)
    \/ \E p \in {"LINUX", "WINDOWS"} : PutIf(p)
    \/ PutElse
    \/ PutEnd
    \/ StartScan
    \/ Scan

Spec == Init /\ [][Next]_vars

-----------------------------------------------------------------------------
Errors == {n \in DOMAIN toks : toks[n].k = "ERROR"}

(***************************************************************************)
(* RoundTrip: a text of well-formed lexemes scans to exactly their tokens, *)
(* each on its own line, with the blocks of another platform left out,     *)
(* whatever the nesting of blocks, comments and f-string braces: the modes *)
(* of scanner_next never leak from one lexeme into the next.               *)
(***************************************************************************)
RoundTrip ==
    (mode = "done" /\ want # Unknown) =>
        SubSeq(toks, 1, Len(toks) - 1) = want

(***************************************************************************)
(* ScanMoves: every call of scanner_next that does not report the end of    *)
(* the file moves the cursor forward, so a parser that keeps asking, as    *)
(* synchronize and recover_in_body do after an error, comes to an end.     *)
(***************************************************************************)
ScanMoves ==
    [][(mode = "scan" /\ mode' # "done") => s'.pos > s.pos]_vars

(***************************************************************************)
(* Diagnosed: a text that stops inside a comment or a quoted literal gets  *)
(* an ERROR token before its EOF (what the comment over skip_whitespace    *)
(* asks of an unterminated block comment): if the text scans without an    *)
(* error, then so does the text with a blank lexeme after it, with one     *)
(* more token: nothing after the text can be swallowed by it.              *)
(***************************************************************************)

\* The scanner and the kinds of its tokens at the end of the text.
ScanStep(text, y, r) == [s |-> r.s, kinds |-> Append(y.kinds, r.tok.k)]
ScanAll(text) ==
    LET S == [s : Scanners(text), kinds : Seq(STRING)]
    IN  Iterate(S, [y \in S |-> y.kinds # <<>> /\ y.kinds[Len(y.kinds)] = "EOF"],
                [y \in S |-> ScanStep(text, y, scanner_next(text, y.s))],
                [s |-> scanner_init, kinds |-> <<>>]).kinds

Diagnosed ==
    (mode = "done" /\ Errors = {} /\ cond_is_emitting(s) /\ ~s.in_fstring) =>
        \A more \in {ScanAll(src \o <<NL, "g">>)} :
            /\ Len(more) = Len(toks) + 1
            /\ more[Len(toks)] = "IDENTIFIER"

(***************************************************************************)
(* CursorInSource: the cursor never passes the terminating NUL of the      *)
(* source (the code reads s->current without a length).                    *)
(***************************************************************************)
CursorInSource == s.pos <= Len(src) + 1
=============================================================================
